---- MODULE Spec2Model ----
(***************************************************************************)
(* A model of pyrailroad's diagram elements (src/src/pyrailroad/elements.py) *)
(* : node construction and measurement, from_dict / to_dict, the process-   *)
(* wide text-diagram glyph table, and the Diagram writers.                  *)
(*                                                                          *)
(* Python values are represented as follows.                                *)
(*   - a dict is a function from its keys to its values;                    *)
(*   - None is the reserved string None (never a text of the model);        *)
(*   - a node is a record with a field kind (its class name) and the fields *)
(*     the class sets; a raised exception is a record with a field err      *)
(*     (the exception class name);                                          *)
(*   - lengths are integers in SVG user units.                              *)
(***************************************************************************)
EXTENDS Integers, Sequences, FiniteSets, TLC

VARIABLES
    FORMATTING,   \* defaults.FORMATTING, the formatting of an item built without one
    parts,        \* TextDiagram.parts, the process-wide glyph table
    tree,         \* the tree under render: result of the from_dict call, or NoTree
    data,         \* the dictionary handed to that from_dict call, as the call left it
    data0,        \* the same dictionary as it was before the call
    given,        \* the parameters handed to that from_dict call
    other,        \* a second tree, built and rendered independently of the first
    otherGiven,   \* the parameters handed to the second tree's from_dict call
    rendered,     \* the last text rendering: which tree, and the glyph table it read
    written,      \* the last writer call: what it wrote, and whether it ran format()
    padding,      \* the keyword arguments of the last format() call on the tree
    laid,         \* the last format(x, y, width) call made on a root that is no Diagram:
                  \* y, and where the call put each branch and connector
    grid,         \* the last call made on the text grids: the method, its
                  \* arguments, and the TextDiagram it returned or the error
                  \* it raised
    parsed        \* the call made on the front end: parse_json or parse, its
                  \* arguments, what it printed, and what it returned or raised

vars == <<FORMATTING, parts, tree, data, data0, given, other, otherGiven, rendered, written,
          padding, laid, grid, parsed>>

----------------------------------------------------------------------------
(* Bounds of the model *)

MaxItems == 3        \* longest items list of a composite dictionary
MaxChildren == 2     \* how many geometry groups explicit format() calls may pile on a root

----------------------------------------------------------------------------
(* Python helpers *)

None == "<None>"

Max2(a, b) == IF a >= b THEN a ELSE b
Max3(a, b, c) == Max2(a, Max2(b, c))

RECURSIVE SumSeq(_)
SumSeq(s) == IF s = <<>> THEN 0 ELSE Head(s) + SumSeq(Tail(s))

RECURSIVE MaxSeq(_)
\* max() over a non-empty sequence
MaxSeq(s) == IF Len(s) = 1 THEN s[1] ELSE Max2(Head(s), MaxSeq(Tail(s)))

\* seq[i] with Python's indexing: 0-based, a negative i counts from the end
PyInRange(s, i) == (0 - Len(s)) <= i /\ i < Len(s)
PyIndex(s, i) == IF i < 0 THEN s[Len(s) + i + 1] ELSE s[i + 1]

Err(class) == [err |-> class]
IsErr(v) == "err" \in DOMAIN v
NoneValue == [kind |-> "NoneType"]
IsNode(v) == ~IsErr(v) /\ v # NoneValue

\* what a call leaves behind: its value, or the exception it raised, and the
\* glyph table
Out(v, g) == [ok |-> TRUE, val |-> v, parts |-> g]
Raise(class, g) == [ok |-> FALSE, val |-> Err(class), parts |-> g]

----------------------------------------------------------------------------
(* defaults, and DiagramItem.__init__ *)

VS == 8
AR == 10
CHAR_WIDTH == 8
COMMENT_CHAR_WIDTH == 7

DefaultParameters ==
    [debug |-> FALSE,
     stroke_odd_pixel_length |-> TRUE,
     diagram_class |-> "railroad-diagram",
     VS |-> VS,
     AR |-> AR,
     char_width |-> CHAR_WIDTH,
     comment_char_width |-> COMMENT_CHAR_WIDTH,
     internal_alignment |-> "center",
     formatting |-> FORMATTING]

\* the parameters argument left out: dict()
NoParameters == <<>>

\* self.parameters: the defaults, overridden key by key
MergeParameters(parameters) ==
    [k \in DOMAIN DefaultParameters \cup DOMAIN parameters |->
        IF k \in DOMAIN parameters THEN parameters[k] ELSE DefaultParameters[k]]

\* TextDiagram.set_formatting as DiagramItem.__init__ calls it: the whole
\* table is replaced by PARTS_ASCII or by PARTS_UNICODE
set_formatting(characters) == characters

PartsFor(parameters) ==
    IF MergeParameters(parameters)["formatting"] = "ascii"
    THEN set_formatting("ascii")
    ELSE set_formatting("unicode")

DiagramItem(name, attrs, text, parameters) ==
    [name |-> name,
     up |-> 0, height |-> 0, down |-> 0, width |-> 0,
     needs_space |-> FALSE,
     parameters |-> MergeParameters(parameters),
     attrs |-> attrs,
     children |-> IF text = None \/ text = "" THEN <<>> ELSE <<text>>]

\* utils.add_debug
add_debug(el) ==
    IF ~el.parameters["debug"] THEN el
    ELSE [el EXCEPT !.attrs =
            ("data-x" :> <<el.kind, el.width, el.up, el.height, el.down>>) @@ el.attrs]

\* the fields a class sets, over the fields DiagramItem.__init__ set
With(fields, base) == fields @@ base

NoAttrs == <<>>

----------------------------------------------------------------------------
(* Leaf elements *)

TextItem(kind, class, text, href, title, cls, width, updown, parameters) ==
    add_debug(With(
        [kind |-> kind, text |-> text, href |-> href, title |-> title, cls |-> cls,
         width |-> width, up |-> updown, down |-> updown, needs_space |-> TRUE],
        DiagramItem("g", [class |-> class \o " " \o cls], None, parameters)))

\* a Terminal as wide as its text alone: the fault C16 guards against
TerminalOfTextWidth(text, href, title, cls, parameters) ==
    Out(TextItem("Terminal", "terminal", text, href, title, cls,
                 Len(text) * MergeParameters(parameters)["char_width"], 11,
                 parameters),
        PartsFor(parameters))

Terminal(text, href, title, cls, parameters) ==
    Out(TextItem("Terminal", "terminal", text, href, title, cls,
                 Len(text) * MergeParameters(parameters)["char_width"] + 20, 11,
                 parameters),
        PartsFor(parameters))

NonTerminal(text, href, title, cls, parameters) ==
    Out(TextItem("NonTerminal", "non-terminal", text, href, title, cls,
                 Len(text) * MergeParameters(parameters)["char_width"] + 20, 11,
                 parameters),
        PartsFor(parameters))

Expression(text, href, title, cls, parameters) ==
    Out(TextItem("Expression", "expression", text, href, title, cls,
                 Len(text) * MergeParameters(parameters)["char_width"] + 40, 11,
                 parameters),
        PartsFor(parameters))

Comment(text, href, title, cls, parameters) ==
    Out(TextItem("Comment", "non-terminal", text, href, title, cls,
                 Len(text) * MergeParameters(parameters)["comment_char_width"] + 10, 8,
                 parameters),
        PartsFor(parameters))

Skip(parameters) ==
    Out(add_debug(With([kind |-> "Skip", width |-> 0, up |-> 0, down |-> 0],
                       DiagramItem("g", NoAttrs, None, parameters))),
        PartsFor(parameters))

Start(type, label, parameters) ==
    Out(add_debug(With(
            [kind |-> "Start",
             width |-> IF label # None /\ label # ""
                       THEN Max2(20, Len(label) * MergeParameters(parameters)["char_width"] + 10)
                       ELSE 20,
             up |-> 10, down |-> 10, type |-> type, label |-> label],
            DiagramItem("g", NoAttrs, None, parameters))),
        PartsFor(parameters))

End(type, parameters) ==
    Out(add_debug(With([kind |-> "End", width |-> 20, up |-> 10, down |-> 10, type |-> type],
                       DiagramItem("path", NoAttrs, None, parameters))),
        PartsFor(parameters))

Arrow(direction, parameters) ==
    Out(add_debug(With([kind |-> "Arrow", width |-> 20, up |-> 10, down |-> 10,
                        direction |-> direction],
                       DiagramItem("path", NoAttrs, None, parameters))),
        PartsFor(parameters))

\* utils.wrap_string on what from_dict hands over: a node is kept; None (a
\* dictionary without "element") goes to Terminal(None), whose len(None)
\* raises after DiagramItem.__init__ has run
wrap_string(value, g) ==
    IF value = NoneValue
    THEN Raise("TypeError", PartsFor(NoParameters))
    ELSE Out(value, g)

\* the outcome h of one element of a comprehension put before the outcome t
\* of the elements after it
Cons(h, t) == IF ~t.ok THEN t ELSE Out(<<h.val>> \o t.val, t.parts)

RECURSIVE WrapItems(_, _), WrapAfter(_, _)
\* [wrap_string(item) for item in items]: the items, or the first exception
WrapItems(items, g) ==
    IF items = <<>> THEN Out(<<>>, g)
    ELSE WrapAfter(wrap_string(Head(items), g), Tail(items))

\* the comprehension after its first element, whose outcome is h
WrapAfter(h, rest) == IF ~h.ok THEN h ELSE Cons(h, WrapItems(rest, h.parts))

\* self.items = [...] of DiagramMultiContainer.__init__: w is the outcome of
\* the comprehension, base the object DiagramItem.__init__ left
SetItems(w, base) == IF ~w.ok THEN w ELSE Out(With([items |-> w.val], base), w.parts)

\* DiagramMultiContainer.__init__
DiagramMultiContainer(name, items, attrs, parameters) ==
    SetItems(WrapItems(items, PartsFor(parameters)),
             DiagramItem(name, attrs, None, parameters))

----------------------------------------------------------------------------
(* Sequence, Stack *)

Space(item, n) == IF item.needs_space THEN n ELSE 0

RECURSIVE SeqMeasure(_, _)
\* the loop of Sequence.__init__ and Diagram.__init__ over self.items
SeqMeasure(items, m) ==
    IF items = <<>> THEN m
    ELSE LET item == Head(items)
         IN  SeqMeasure(Tail(items),
                [width |-> m.width + item.width + Space(item, 20),
                 up |-> Max2(m.up, item.up - m.height),
                 height |-> m.height + item.height,
                 down |-> Max2(m.down - item.height, item.down)])

\* the width left as the loop summed it, the ends not taken off: the fault
\* C18 guards against
SeqFieldsUntrimmed(items) ==
    SeqMeasure(items, [width |-> 0, up |-> 0, height |-> 0, down |-> 0])

SeqFields(items) ==
    LET m == SeqMeasure(items, [width |-> 0, up |-> 0, height |-> 0, down |-> 0])
    IN  [m EXCEPT !.width = @ - Space(items[1], 10) - Space(items[Len(items)], 10)]

\* Sequence.__init__ after DiagramMultiContainer.__init__, whose outcome is c
SequenceInit(c) ==
    IF ~c.ok THEN c
    ELSE IF c.val.items = <<>> THEN Raise("IndexError", c.parts)
    ELSE Out(add_debug(With([kind |-> "Sequence", needs_space |-> TRUE],
                            With(SeqFields(c.val.items), c.val))),
             c.parts)

Sequence(items, parameters) ==
    SequenceInit(DiagramMultiContainer("g", items, NoAttrs, parameters))

RECURSIVE StackHeight(_, _, _)
StackHeight(items, i, P) ==
    IF i > Len(items) THEN 0
    ELSE items[i].height
         + (IF i > 1 THEN Max2(P["AR"] * 2, items[i].up + P["VS"]) ELSE 0)
         + (IF i < Len(items) THEN Max2(P["AR"] * 2, items[i].down + P["VS"]) ELSE 0)
         + StackHeight(items, i + 1, P)

\* Stack.__init__ after DiagramMultiContainer.__init__, whose outcome is c;
\* P is self.parameters
StackInit(c, P) ==
    IF ~c.ok THEN c
    ELSE IF c.val.items = <<>> THEN Raise("ValueError", c.parts)
    ELSE LET its == c.val.items
             n == Len(its)
         IN  Out(add_debug(With(
                    [kind |-> "Stack", needs_space |-> TRUE,
                     width |-> MaxSeq([i \in 1..n |-> its[i].width + Space(its[i], 20)])
                               + (IF n > 1 THEN P["AR"] * 2 ELSE 0),
                     up |-> its[1].up,
                     down |-> its[n].down,
                     height |-> StackHeight(its, 1, P)],
                    c.val)),
                 c.parts)

Stack(items, parameters) ==
    StackInit(DiagramMultiContainer("g", items, NoAttrs, parameters),
              MergeParameters(parameters))

----------------------------------------------------------------------------
(* OptionalSequence *)

RECURSIVE OptSeqLoop(_, _, _, _, _)
\* the loop of OptionalSequence.__init__; m carries up, down, width and
\* height_so_far, height is self.height
OptSeqLoop(items, i, P, height, m) ==
    IF i > Len(items) THEN m
    ELSE LET item == items[i]
             up1 == Max2(m.up, Max2(P["AR"] * 2, item.up + P["VS"]) - m.height_so_far)
             hsf == m.height_so_far + item.height
             down1 == IF i > 1
                      THEN Max2(height + m.down,
                                hsf + Max2(P["AR"] * 2, item.down + P["VS"])) - height
                      ELSE m.down
             item_width == item.width + Space(item, 10)
             width1 == IF i = 1
                       THEN m.width + P["AR"] + Max2(item_width, P["AR"])
                       ELSE m.width + P["AR"] * 2 + Max2(item_width, P["AR"]) + P["AR"]
         IN  OptSeqLoop(items, i + 1, P, height,
                        [up |-> up1, down |-> down1, width |-> width1, height_so_far |-> hsf])

\* the fields OptionalSequence.__init__ ends with: m is what the loop left
OptionalSequenceFields(c, height, m) ==
    Out(add_debug(With(
           [kind |-> "OptionalSequence", needs_space |-> FALSE,
            width |-> m.width, up |-> m.up, height |-> height, down |-> m.down],
           c.val)),
        c.parts)

\* the loop of OptionalSequence.__init__, run with self.height = height
OptionalSequenceLoop(c, P, height) ==
    OptionalSequenceFields(c, height,
        OptSeqLoop(c.val.items, 1, P, height,
                   [up |-> 0, down |-> c.val.items[1].down, width |-> 0,
                    height_so_far |-> 0]))

\* OptionalSequence.__init__ after DiagramMultiContainer.__init__, whose
\* outcome is c; P is self.parameters
OptionalSequenceInit(c, P) ==
    IF ~c.ok THEN c
    ELSE OptionalSequenceLoop(c, P,
            SumSeq([i \in 1..Len(c.val.items) |-> c.val.items[i].height]))

OptionalSequence(items, parameters) ==
    IF Len(items) <= 1 THEN Sequence(items, parameters)
    ELSE OptionalSequenceInit(DiagramMultiContainer("g", items, NoAttrs, parameters),
                              MergeParameters(parameters))

----------------------------------------------------------------------------
(* AlternatingSequence *)

\* (2 * sqrt(2) - 2) * arc, the amount by which cross_x = (cross_y - arc_y) + arc_x
\* exceeds cross_y, in whole units (rounded down)
CrossExcess(arc) == (828 * arc) \div 1000

\* at least two items accepted: the fault C9 guards against
AlternatingSequenceArityAtLeast(items) == Len(items) >= 2

\* AlternatingSequence.__new__ goes on only if len(items) == 2
AlternatingSequenceArity(items) == Len(items) = 2

\* AlternatingSequence.__init__ after DiagramMultiContainer.__init__, whose
\* outcome is c; P is self.parameters
AlternatingSequenceInit(c, P) ==
    IF ~c.ok THEN c
    ELSE LET arc == P["AR"]
             vert == P["VS"]
             first == c.val.items[1]
             second == c.val.items[2]
             cross_y == Max2(arc, vert)
             cross_x == cross_y + CrossExcess(arc)
             first_out == Max3(arc + arc, cross_y \div 2 + arc + arc,
                               cross_y \div 2 + vert + first.down)
             second_in == Max3(arc + arc, cross_y \div 2 + arc + arc,
                               cross_y \div 2 + vert + second.up)
             first_width == Space(first, 20) + first.width
             second_width == Space(second, 20) + second.width
         IN  Out(add_debug(With(
                    [kind |-> "AlternatingSequence", needs_space |-> FALSE,
                     up |-> first_out + first.height + first.up,
                     down |-> second_in + second.height + second.down,
                     height |-> 0,
                     width |-> 2 * arc + Max3(first_width, cross_x, second_width)
                               + 2 * arc],
                    c.val)),
                 c.parts)

AlternatingSequence(items, parameters, g) ==
    IF ~AlternatingSequenceArity(items) THEN Raise("ParseException", g)
    ELSE AlternatingSequenceInit(DiagramMultiContainer("g", items, NoAttrs, parameters),
                                 MergeParameters(parameters))

----------------------------------------------------------------------------
(* Choice *)

\* seq[i] = v with Python's indexing
PyStore(s, i, v) == IF i < 0 THEN [s EXCEPT ![Len(s) + i + 1] = v] ELSE [s EXCEPT ![i + 1] = v]

\* the extra separation the arcs ask for
Bump(arcs, entryDelta, exitDelta) ==
    IF exitDelta < arcs \/ entryDelta < arcs
    THEN Max2(arcs - entryDelta, arcs - exitDelta)
    ELSE 0

RECURSIVE ChoiceUp(_, _, _, _, _)
\* for i in range(default - 1, -1, -1); m carries up and separators
ChoiceUp(items, default, P, i, m) ==
    IF i < 0 THEN m
    ELSE LET arcs == IF i = default - 1 THEN P["AR"] * 2 ELSE P["AR"]
             item == PyIndex(items, i)
             lowerItem == PyIndex(items, i + 1)
             entryDelta == lowerItem.up + P["VS"] + item.down + item.height
             exitDelta == lowerItem.height + lowerItem.up + P["VS"] + item.down
             separator == P["VS"] + Bump(arcs, entryDelta, exitDelta)
         IN  ChoiceUp(items, default, P, i - 1,
                      [up |-> m.up + lowerItem.up + separator + item.down + item.height,
                       separators |-> PyStore(m.separators, i, separator)])

RECURSIVE ChoiceDown(_, _, _, _, _)
\* for i in range(default + 1, len(self.items)); m carries down, separators
\* and ok, which is FALSE once a subscript was out of range
ChoiceDown(items, default, P, i, m) ==
    IF i >= Len(items) \/ ~m.ok THEN m
    ELSE IF ~PyInRange(items, i) \/ ~PyInRange(items, i - 1)
            \/ ~PyInRange(m.separators, i - 1)
         THEN [m EXCEPT !.ok = FALSE]
    ELSE LET arcs == IF i = default + 1 THEN P["AR"] * 2 ELSE P["AR"]
             item == PyIndex(items, i)
             upperItem == PyIndex(items, i - 1)
             entryDelta == upperItem.height + upperItem.down + P["VS"] + item.up
             exitDelta == upperItem.down + P["VS"] + item.up + item.height
             separator == P["VS"] + Bump(arcs, entryDelta, exitDelta)
         IN  ChoiceDown(items, default, P, i + 1,
                        [down |-> m.down + upperItem.down + separator + item.up + item.height,
                         separators |-> PyStore(m.separators, i - 1, separator),
                         ok |-> TRUE])

\* assert default < len(items)
ChoiceAssert(default, items) == default < Len(items)

\* the fields Choice.__init__ ends with: u is what the loop over the items
\* above the default left, d what the loop over the items below it left
ChoiceFields(default, c, P, u, d) ==
    IF ~d.ok THEN Raise("IndexError", c.parts)
    ELSE LET its == c.val.items
             n == Len(its)
         IN  Out(add_debug(With(
                    [kind |-> "Choice", default |-> default,
                     width |-> P["AR"] * 4 + MaxSeq([i \in 1..n |-> its[i].width]),
                     separators |-> d.separators,
                     up |-> u.up + its[1].up,
                     height |-> PyIndex(its, default).height,
                     down |-> d.down + its[n].down],
                    c.val)),
                 c.parts)

\* Choice.__init__ from self.height = self.items[default].height on
ChoiceBelow(default, c, P, u) ==
    IF ~PyInRange(c.val.items, default) THEN Raise("IndexError", c.parts)
    ELSE ChoiceFields(default, c, P, u,
            ChoiceDown(c.val.items, default, P, default + 1,
                       [down |-> 0, separators |-> u.separators, ok |-> TRUE]))

\* Choice.__init__ after DiagramMultiContainer.__init__, whose outcome is c;
\* P is self.parameters
ChoiceInit(default, items, c, P) ==
    IF ~c.ok THEN c
    ELSE IF ~ChoiceAssert(default, items) THEN Raise("AssertionError", c.parts)
    ELSE IF c.val.items = <<>> THEN Raise("ValueError", c.parts)
    ELSE ChoiceBelow(default, c, P,
            ChoiceUp(c.val.items, default, P, default - 1,
                     [up |-> 0,
                      separators |-> [i \in 1..(Len(c.val.items) - 1) |-> P["VS"]]]))

Choice(default, items, parameters) ==
    ChoiceInit(default, items, DiagramMultiContainer("g", items, NoAttrs, parameters),
               MergeParameters(parameters))

----------------------------------------------------------------------------
(* MultipleChoice *)

\* the first assert only: the fault C7 guards against
MultipleChoiceAssertDefault(default, type, items) ==
    0 <= default /\ default < Len(items)

\* assert 0 <= default < len(items); assert type in ["any", "all"]
MultipleChoiceAssert(default, type, items) ==
    /\ 0 <= default /\ default < Len(items)
    /\ type \in {"any", "all"}

\* MultipleChoice.__init__ after DiagramMultiContainer.__init__, whose outcome
\* is c; P is self.parameters
MultipleChoiceInit(default, type, items, c, P) ==
    IF ~c.ok THEN c
    ELSE IF ~MultipleChoiceAssert(default, type, items)
         THEN Raise("AssertionError", c.parts)
    ELSE LET its == c.val.items
             n == Len(its)
             \* i is the 0-based index of the loop
             minimum(i) == IF i \in {default - 1, default + 1}
                           THEN 10 + P["AR"] ELSE P["AR"]
             above(i) == IF i < default
                         THEN Max2(minimum(i),
                                   its[i + 1].height + its[i + 1].down + P["VS"]
                                   + its[i + 2].up)
                         ELSE 0
             below(i) == IF i > default
                         THEN Max2(minimum(i),
                                   its[i + 1].up + P["VS"] + its[i].down + its[i].height)
                         ELSE 0
             inner_width == MaxSeq([i \in 1..n |-> its[i].width])
         IN  Out(add_debug(With(
                    [kind |-> "MultipleChoice", default |-> default, type |-> type,
                     needs_space |-> TRUE,
                     inner_width |-> inner_width,
                     width |-> 30 + P["AR"] + inner_width + P["AR"] + 20,
                     up |-> its[1].up + SumSeq([i \in 1..n |-> above(i - 1)]),
                     down |-> its[n].down + SumSeq([i \in 1..n |-> below(i - 1)])
                              - its[default + 1].height,
                     height |-> its[default + 1].height],
                    c.val)),
                 c.parts)

MultipleChoice(default, type, items, parameters) ==
    MultipleChoiceInit(default, type, items,
                       DiagramMultiContainer("g", items, NoAttrs, parameters),
                       MergeParameters(parameters))

----------------------------------------------------------------------------
(* HorizontalChoice *)

\* HorizontalChoice.__init__ after DiagramMultiContainer.__init__, whose
\* outcome is c; P is self.parameters
HorizontalChoiceInit(c, P) ==
    IF ~c.ok THEN c
    ELSE LET its == c.val.items
             n == Len(its)
             first == its[1]
             last == its[n]
             upperTrack == Max3(P["AR"] * 2, P["VS"],
                                MaxSeq([i \in 1..(n - 1) |-> its[i].up]) + P["VS"])
             middles == IF n > 2
                        THEN MaxSeq([i \in 1..(n - 2) |->
                               its[i + 1].height
                               + Max2(its[i + 1].down + P["VS"], P["AR"] * 2)])
                        ELSE 0
             lower0 == Max3(P["VS"], middles, last.height + last.down + P["VS"])
             lowerTrack == IF first.height < lower0
                           THEN Max2(lower0, first.height + P["AR"] * 2)
                           ELSE lower0
         IN  Out(add_debug(With(
                    [kind |-> "HorizontalChoice", needs_space |-> FALSE,
                     width |-> P["AR"] + P["AR"] * 2 * (n - 1)
                               + SumSeq([i \in 1..n |-> its[i].width + Space(its[i], 20)])
                               + (IF last.height > 0 THEN P["AR"] ELSE 0)
                               + P["AR"],
                     height |-> 0,
                     upperTrack |-> upperTrack,
                     up |-> Max2(upperTrack, last.up),
                     lowerTrack |-> lowerTrack,
                     down |-> Max2(lowerTrack, first.height + first.down)],
                    c.val)),
                 c.parts)

\* a single item handed to Stack instead of Sequence: the fault C15 guards
\* against
HorizontalChoiceAsStack(items, parameters) ==
    IF Len(items) <= 1 THEN Stack(items, parameters)
    ELSE HorizontalChoiceInit(DiagramMultiContainer("g", items, NoAttrs, parameters),
                              MergeParameters(parameters))

HorizontalChoice(items, parameters) ==
    IF Len(items) <= 1 THEN Sequence(items, parameters)
    ELSE HorizontalChoiceInit(DiagramMultiContainer("g", items, NoAttrs, parameters),
                              MergeParameters(parameters))

----------------------------------------------------------------------------
(* optional, OneOrMore, zero_or_more, Group *)

\* the default taken the other way round: the fault C19 guards against
optionalDefaultSwapped(item, skip, parameters) ==
    Choice(IF skip THEN 1 ELSE 0, <<Skip(parameters).val, item>>, parameters)

optional(item, skip, parameters) ==
    Choice(IF skip THEN 0 ELSE 1, <<Skip(parameters).val, item>>, parameters)

\* the fields OneOrMore.__init__ sets: it is the wrapped item, rep the
\* outcome of `repeat or Skip()`, base what DiagramItem.__init__ left
OneOrMoreFields(it, rep, P, base) ==
    Out(add_debug(With(
           [kind |-> "OneOrMore", item |-> it.val, rep |-> rep.val,
            width |-> Max2(it.val.width, rep.val.width) + P["AR"] * 2,
            height |-> it.val.height,
            up |-> it.val.up,
            down |-> Max2(P["AR"] * 2,
                          it.val.down + P["VS"] + rep.val.up + rep.val.height
                          + rep.val.down),
            needs_space |-> TRUE],
           base)),
        rep.parts)

\* OneOrMore.__init__ after wrap_string(item), whose outcome is it
OneOrMoreInit(it, repeat, parameters) ==
    IF ~it.ok THEN it
    ELSE OneOrMoreFields(it,
            IF repeat = NoneValue THEN Skip(NoParameters) ELSE Out(repeat, it.parts),
            MergeParameters(parameters),
            DiagramItem("g", NoAttrs, None, parameters))

\* repeat is NoneValue when the argument is left out (or is None)
OneOrMore(item, repeat, parameters) ==
    OneOrMoreInit(wrap_string(item, PartsFor(parameters)), repeat, parameters)

\* optional(o, skip), o being the outcome of the OneOrMore(...) in its argument
OptionalOf(o, skip, parameters) ==
    IF ~o.ok THEN o ELSE optional(o.val, skip, parameters)

zero_or_more(item, repeat, skip, parameters) ==
    OptionalOf(OneOrMore(item, repeat, parameters), skip, parameters)

\* a label that is a string
Str(s) == [kind |-> "str", s |-> s]
IsStr(x) == "kind" \in DOMAIN x /\ x.kind = "str"

\* the fields Group.__init__ sets: it is the wrapped item, lab the outcome
\* of the label (a node or NoneValue), base what DiagramItem.__init__ left
GroupFields(it, lab, P, base) ==
    LET hasLabel == lab.val # NoneValue
        boxUp == Max2(it.val.up + P["VS"], P["AR"])
    IN  Out(add_debug(With(
               [kind |-> "Group", item |-> it.val, label |-> lab.val,
                width |-> Max3(it.val.width + Space(it.val, 20),
                               IF hasLabel THEN lab.val.width ELSE 0,
                               P["AR"] * 2),
                height |-> it.val.height,
                boxUp |-> boxUp,
                up |-> boxUp + (IF hasLabel
                                THEN lab.val.up + lab.val.height + lab.val.down
                                ELSE 0),
                down |-> Max2(it.val.down + P["VS"], P["AR"]),
                needs_space |-> TRUE],
               base)),
            lab.parts)

\* Group.__init__ after wrap_string(item), whose outcome is it
GroupInit(it, label, parameters) ==
    IF ~it.ok THEN it
    ELSE GroupFields(it,
            IF label = NoneValue THEN Out(NoneValue, it.parts)
            ELSE IF IsStr(label)
                 THEN IF label.s # ""
                      THEN Comment(label.s, None, None, "", NoParameters)
                      ELSE Out(NoneValue, it.parts)
                 ELSE Out(label, it.parts),
            MergeParameters(parameters),
            DiagramItem("g", NoAttrs, None, parameters))

\* label is NoneValue (left out, or None), Str(s), or a node
Group(item, label, parameters) ==
    GroupInit(wrap_string(item, PartsFor(parameters)), label, parameters)

----------------------------------------------------------------------------
(* Diagram.__init__ *)

Get(d, k, default) == IF k \in DOMAIN d THEN d[k] ELSE default

\* the measures Diagram.__init__ takes of self.items, its
DiagramFields(c, type, its) ==
    Out(With([kind |-> "Diagram", type |-> type, items |-> its, formatted |-> FALSE],
             With(SeqFields(its), c.val)),
        c.parts)

\* a Start and an End inserted whatever the items are: the fault C20 guards
\* against
DiagramInitAlways(items, type, c) ==
    IF ~c.ok THEN c
    ELSE IF items = <<>> THEN Raise("IndexError", c.parts)
    ELSE DiagramFields(c, type,
            <<Start(type, None, NoParameters).val>>
            \o c.val.items
            \o <<End(type, NoParameters).val>>)

\* Diagram.__init__ after DiagramMultiContainer.__init__, whose outcome is c
DiagramInit(items, type, c) ==
    IF ~c.ok THEN c
    ELSE IF items = <<>> THEN Raise("IndexError", c.parts)
    ELSE DiagramFields(c, type,
            (IF items[1].kind # "Start"
             THEN <<Start(type, None, NoParameters).val>> ELSE <<>>)
            \o c.val.items
            \o (IF items[Len(items)].kind # "End"
                THEN <<End(type, NoParameters).val>> ELSE <<>>))

Diagram(items, type, parameters) ==
    DiagramInit(items, type,
                DiagramMultiContainer("svg", items,
                                      [class |-> Get(parameters, "diagram_class",
                                                     DefaultParameters["diagram_class"])],
                                      NoParameters))

----------------------------------------------------------------------------
(* DiagramItem.from_dict *)

\* a call's outcome together with the dictionary as the call left it
Ret(out, d) == [ok |-> out.ok, val |-> out.val, parts |-> out.parts, data |-> d]

\* an exception raised with a message: the message is kept as the pieces of
\* the f-string that builds it, the literal text and the values put in
RaiseMsg(class, msg, g) == [ok |-> FALSE, val |-> [err |-> class, msg |-> msg], parts |-> g]

\* an unknown element refused without its name
UnknownElementUnnamed(element, g) ==
    RaiseMsg("ParseException", <<"Unknown element.">>, g)

\* case _: raise ParseException(f"Unknown element: {data['element']}.")
UnknownElement(element, g) ==
    RaiseMsg("ParseException", <<"Unknown element: ", element, ".">>, g)

\* the "type" of the dictionary ignored: the fault C5 guards against
TypeOfParameters(d, parameters) == Get(parameters, "type", "simple")

\* the "type" of a Start or End dictionary
TypeOf(d, parameters) ==
    IF "type" \notin DOMAIN d \/ d["type"] = None
    THEN Get(parameters, "type", "simple")
    ELSE d["type"]

\* data["default"] = 0, the assignment of the Choice case's except KeyError
DefaultStored(d) == ("default" :> 0) @@ d

RECURSIVE from_dict(_, _, _), FromDictItems(_, _, _), FromDictAfter(_, _, _)

\* (from_dict(item, parameters) for item in items), unpacked: the values in
\* order, or the first exception; data is the items as the calls left them
FromDictItems(items, parameters, g) ==
    IF items = <<>> THEN Ret(Out(<<>>, g), <<>>)
    ELSE FromDictAfter(from_dict(Head(items), parameters, g), Tail(items), parameters)

\* the outcome h of the first call put before the outcome t of the calls
\* after it
ConsData(h, t) == Ret(Cons(h, t), <<h.data>> \o t.data)

\* the generator after its first element, whose outcome is h
FromDictAfter(h, rest, parameters) ==
    IF ~h.ok THEN Ret(h, <<h.data>> \o rest)
    ELSE ConsData(h, FromDictItems(rest, parameters, h.parts))

\* the constructor call of a case that builds a container: c is the outcome
\* of the from_dict calls on data["items"]
ItemsCase(d, parameters, kind, c) ==
    LET d1 == [d EXCEPT !["items"] = c.data]
    IN  IF ~c.ok THEN Ret(c, d1)
        ELSE Ret(CASE kind = "Diagram" ->
                        Diagram(c.val, Get(parameters, "type", "simple"), parameters)
                   [] kind = "Stack" -> Stack(c.val, parameters)
                   [] kind = "Choice" -> Choice(d["default"], c.val, parameters)
                   [] kind = "HorizontalChoice" -> HorizontalChoice(c.val, parameters)
                   [] kind = "OptionalSequence" -> OptionalSequence(c.val, parameters)
                   [] kind = "AlternatingSequence" ->
                        AlternatingSequence(c.val, parameters, c.parts)
                   [] kind = "MultipleChoice" ->
                        MultipleChoice(d["default"], d["type"], c.val, parameters)
                   [] kind = "Sequence" -> Sequence(c.val, parameters),
                 d1)

\* the cases that build a container from data["items"]
FromItems(d, parameters, g, kind) ==
    IF "items" \notin DOMAIN d THEN Ret(Raise("KeyError", g), d)
    ELSE ItemsCase(d, parameters, kind, FromDictItems(d["items"], parameters, g))

\* the constructor call of a case that builds an element around an item: it
\* is the built item, x the outcome of the label or repeat (x.val is
\* NoneValue when there is none), d2 the dictionary as the calls left it
ItemCall(d2, parameters, kind, it, x) ==
    IF ~x.ok THEN Ret(x, d2)
    ELSE Ret(CASE kind = "Group" -> Group(it.val, x.val, parameters)
               [] kind = "OneOrMore" -> OneOrMore(it.val, x.val, parameters)
               [] kind = "ZeroOrMore" ->
                    zero_or_more(it.val, x.val, Get(d2, "skip", FALSE), parameters),
             d2)

\* the label of a Group case, the repeat of a OneOrMore or ZeroOrMore case;
\* d1 is the dictionary as the call on data["item"] left it
ItemSecond(d1, parameters, kind, it, key, x) ==
    ItemCall(IF key \in DOMAIN d1 THEN [d1 EXCEPT ![key] = x.data] ELSE d1,
             parameters, kind, it, x)

\* a case that builds an element around an item, after the from_dict call
\* on data["item"], whose outcome is it
ItemCase(d, parameters, kind, it) ==
    LET d1 == [d EXCEPT !["item"] = it.data]
        key == IF kind = "Group" THEN "label" ELSE "repeat"
    IN  IF ~it.ok THEN Ret(it, d1)
        ELSE IF kind = "Optional"
             THEN Ret(optional(it.val, Get(d, "skip", FALSE), parameters), d1)
        ELSE ItemSecond(d1, parameters, kind, it, key,
                IF key \notin DOMAIN d \/ d[key] = NoneValue
                THEN Ret(Out(NoneValue, it.parts), NoneValue)
                ELSE IF kind = "Group" /\ IsStr(d[key])
                     THEN Ret(Out(d[key], it.parts), d[key])
                     ELSE from_dict(d[key], parameters, it.parts))

\* the cases that build an element around data["item"]
FromItem(d, parameters, g, kind) ==
    IF "item" \notin DOMAIN d THEN Ret(Raise("KeyError", g), d)
    ELSE ItemCase(d, parameters, kind, from_dict(d["item"], parameters, g))

\* the four cases that build a text element
FromText(d, parameters, g, kind) ==
    IF "text" \notin DOMAIN d THEN Ret(Raise("KeyError", g), d)
    ELSE LET href == Get(d, "href", None)
             title == Get(d, "title", None)
             cls == Get(d, "cls", "")
         IN  Ret(CASE kind = "Terminal" -> Terminal(d["text"], href, title, cls, parameters)
                   [] kind = "NonTerminal" ->
                        NonTerminal(d["text"], href, title, cls, parameters)
                   [] kind = "Comment" -> Comment(d["text"], href, title, cls, parameters)
                   [] kind = "Expression" ->
                        Expression(d["text"], href, title, cls, parameters),
                 d)

from_dict(d, parameters, g) ==
    IF "element" \notin DOMAIN d THEN Ret(Out(NoneValue, g), d)
    ELSE LET element == d["element"]
         IN  IF /\ element = "MultipleChoice"
                /\ ("default" \notin DOMAIN d \/ "type" \notin DOMAIN d)
             THEN Ret(Raise("KeyError", g), d)
             ELSE IF element \in {"Diagram", "Stack", "HorizontalChoice", "OptionalSequence",
                                  "AlternatingSequence", "Sequence", "Choice",
                                  "MultipleChoice"}
             THEN FromItems(IF element = "Choice" /\ "default" \notin DOMAIN d
                            THEN DefaultStored(d) ELSE d,
                            parameters, g, element)
             ELSE IF element \in {"OneOrMore", "ZeroOrMore", "Optional", "Group"}
             THEN FromItem(d, parameters, g, element)
             ELSE IF element \in {"Terminal", "NonTerminal", "Comment", "Expression"}
             THEN FromText(d, parameters, g, element)
             ELSE IF element = "Start"
             THEN Ret(Start(TypeOf(d, parameters), Get(d, "label", None), parameters), d)
             ELSE IF element = "End"
             THEN Ret(End(TypeOf(d, parameters), parameters), d)
             ELSE IF element = "Arrow"
             THEN Ret(Arrow(IF "direction" \notin DOMAIN d \/ d["direction"] = None
                            THEN "right" ELSE d["direction"],
                            parameters),
                      d)
             ELSE IF element = "Skip"
             THEN Ret(Skip(parameters), d)
             ELSE Ret(UnknownElement(element, g), d)

----------------------------------------------------------------------------
(* to_dict *)

RECURSIVE to_dict(_)
to_dict(node) ==
    LET items == [i \in 1..Len(node.items) |-> to_dict(node.items[i])]
    IN  CASE node.kind \in {"Diagram", "Sequence", "Stack", "OptionalSequence",
                            "AlternatingSequence", "HorizontalChoice"} ->
                [element |-> node.kind, items |-> items]
          [] node.kind = "Choice" ->
                [element |-> "Choice", default |-> node.default, items |-> items]
          [] node.kind = "MultipleChoice" ->
                [element |-> "MultipleChoice", default |-> node.default,
                 type |-> node.type, items |-> items]
          [] node.kind = "OneOrMore" ->
                [element |-> "OneOrMore", item |-> to_dict(node.item),
                 repeat |-> to_dict(node.rep)]
          [] node.kind = "Group" ->
                [element |-> "Group", item |-> to_dict(node.item),
                 label |-> IF node.label = NoneValue THEN NoneValue
                           ELSE to_dict(node.label)]
          [] node.kind = "Start" ->
                [element |-> "Start", type |-> node.type, label |-> node.label]
          [] node.kind = "End" -> [element |-> "End", type |-> node.type]
          [] node.kind = "Arrow" -> [element |-> "Arrow", direction |-> node.direction]
          [] node.kind \in {"Terminal", "NonTerminal", "Comment", "Expression"} ->
                [element |-> node.kind, text |-> node.text, href |-> node.href,
                 title |-> node.title, cls |-> node.cls]
          [] node.kind = "Skip" -> [element |-> "Skip"]

----------------------------------------------------------------------------
(* format: what each class appends to self.children and sets in self.attrs. *)
(* A Path is recorded as "path", a DiagramItem built on the spot by its     *)
(* tag, and a formatted item (the object self.items also holds) as "item".  *)

\* a format() that widens the node it draws: the fault C4 guards against
Append2Widening(node, tags) ==
    [node EXCEPT !.children = @ \o tags, !.width = @ + Len(tags)]

\* X.add_to(self), for each tag X in turn
Append2(node, tags) == [node EXCEPT !.children = @ \o tags]

RECURSIVE Repeat(_, _)
\* tags, n times over
Repeat(tags, n) == IF n <= 0 THEN <<>> ELSE tags \o Repeat(tags, n - 1)

\* the drawing of a text element: the box, the text (in a link when it has
\* an href), the title
TextTags(node, box) ==
    <<"path", "path">> \o box
    \o (IF node.href # None THEN <<"a">> ELSE <<"text">>)
    \o (IF node.title # None THEN <<"title">> ELSE <<>>)

RECURSIVE format(_), FormatAt(_, _)

\* item.format(...) for the items at the 0-based subscripts idxs, in that
\* order (Python's indexing: a negative subscript counts from the end)
FormatAt(items, idxs) ==
    IF idxs = <<>> THEN items
    ELSE FormatAt(PyStore(items, Head(idxs), format(PyIndex(items, Head(idxs)))), Tail(idxs))

\* the subscripts a, a + step, ... up to but not including b: range(a, b, step)
RECURSIVE Range(_, _, _)
Range(a, b, step) ==
    IF (step > 0 /\ a >= b) \/ (step < 0 /\ a <= b) THEN <<>>
    ELSE <<a>> \o Range(a + step, b, step)

SequenceTags(items) ==
    LET n == Len(items)
        at(i) == (IF items[i].needs_space /\ i > 1 THEN <<"path">> ELSE <<>>)
                 \o <<"item">>
                 \o (IF items[i].needs_space /\ i < n THEN <<"path">> ELSE <<>>)
        RECURSIVE from(_)
        from(i) == IF i > n THEN <<>> ELSE at(i) \o from(i + 1)
    IN  <<"path", "path">> \o from(1)

OptionalSequenceTags(n) ==
    <<"path", "path">>
    \o <<"path", "path", "item">>
    \o Repeat(<<"path", "path", "item", "path", "path">>, n - 2)
    \o <<"path", "item", "path", "path">>

StackTags(n) ==
    <<"path">> \o (IF n > 1 THEN <<"path">> ELSE <<>>)
    \o Repeat(<<"item", "path">>, n - 1) \o <<"item">>
    \o (IF n > 1 THEN <<"path">> ELSE <<>>) \o <<"path">>

format(node) ==
    LET kind == node.kind
        all == Range(0, Len(node.items), 1)
    IN  CASE kind \in {"Terminal", "NonTerminal"} -> Append2(node, TextTags(node, <<"rect">>))
          [] kind = "Expression" -> Append2(node, TextTags(node, <<"polygon">>))
          [] kind = "Comment" -> Append2(node, TextTags(node, <<>>))
          [] kind = "Skip" -> Append2(node, <<"path">>)
          [] kind = "Start" ->
                Append2(node, <<"path">> \o (IF node.label # None /\ node.label # ""
                                             THEN <<"text">> ELSE <<>>))
          [] kind = "End" ->
                [node EXCEPT !.attrs =
                    (IF node.type \in {"simple", "complex", "sql"}
                     THEN [class |-> "end", d |-> node.type]
                     ELSE [class |-> "end"]) @@ @]
          [] kind = "Arrow" ->
                [node EXCEPT !.attrs = [class |-> "arrow", d |-> node.direction] @@ @]
          [] kind = "Sequence" ->
                Append2([node EXCEPT !.items = FormatAt(@, all)], SequenceTags(node.items))
          [] kind = "Stack" ->
                Append2([node EXCEPT !.items = FormatAt(@, all)], StackTags(Len(node.items)))
          [] kind = "OptionalSequence" ->
                Append2([node EXCEPT !.items = FormatAt(@, all)],
                        OptionalSequenceTags(Len(node.items)))
          [] kind = "AlternatingSequence" ->
                Append2([node EXCEPT !.items = FormatAt(@, all)],
                        <<"path", "path", "path", "item", "path", "path", "item", "path",
                          "path", "path">>)
          [] kind = "Choice" ->
                LET order == Range(node.default - 1, -1, -1) \o <<node.default>>
                             \o Range(node.default + 1, Len(node.items), 1)
                IN  Append2([node EXCEPT !.items = FormatAt(@, order)],
                            <<"path", "path">>
                            \o Repeat(<<"path", "item", "path">>, Len(order)))
          [] kind = "MultipleChoice" ->
                LET order == Range(node.default - 1, -1, -1) \o <<node.default>>
                             \o Range(node.default + 1, Len(node.items), 1)
                IN  Append2([node EXCEPT !.items = FormatAt(@, order)],
                            <<"path", "path">>
                            \o Repeat(<<"path", "item", "path">>, Len(order))
                            \o <<"g">>)
          [] kind = "HorizontalChoice" ->
                Append2([node EXCEPT !.items = FormatAt(@, all)],
                        <<"path", "path", "path", "path">>
                        \o Repeat(<<"path", "item", "path">>, Len(node.items)))
          [] kind = "OneOrMore" ->
                Append2([node EXCEPT !.item = format(@), !.rep = format(@)],
                        <<"path", "path", "path", "item", "path", "path", "item", "path">>)
          [] kind = "Group" ->
                IF node.label # NoneValue
                THEN Append2([node EXCEPT !.item = format(@), !.label = format(@)],
                             <<"path", "path", "rect", "item", "item">>)
                ELSE Append2([node EXCEPT !.item = format(@)],
                             <<"path", "path", "rect", "item">>)

\* the keyword arguments left out of a Diagram.format call default to
\* padding_top = 20 and to one another
PaddingTop(args) == Get(args, "padding_top", 20)
PaddingRight(args) == Get(args, "padding_right", PaddingTop(args))
PaddingBottom(args) == Get(args, "padding_bottom", PaddingTop(args))
PaddingLeft(args) == Get(args, "padding_left", PaddingRight(args))

DiagramGroup(root) ==
    LET n == Len(root.items)
        at(i) == (IF root.items[i].needs_space THEN <<"path">> ELSE <<>>)
                 \o <<"item">>
                 \o (IF root.items[i].needs_space THEN <<"path">> ELSE <<>>)
        RECURSIVE from(_)
        from(i) == IF i > n THEN <<>> ELSE at(i) \o from(i + 1)
    IN  [name |-> "g",
         attrs |-> IF root.parameters["stroke_odd_pixel_length"]
                   THEN [transform |-> "translate(.5 .5)"] ELSE NoAttrs,
         children |-> from(1)]

\* format with a height attribute that leaves out down: the fault C17 guards
\* against
DiagramFormatWithoutDown(root, args) ==
    LET width == root.width + PaddingLeft(args) + PaddingRight(args)
        height == root.up + root.height + PaddingTop(args) + PaddingBottom(args)
    IN  [root EXCEPT
            !.items = FormatAt(@, Range(0, Len(root.items), 1)),
            !.attrs = [width |-> width, height |-> height,
                       viewBox |-> <<0, 0, width, height>>] @@ @,
            !.children = Append(@, DiagramGroup(root)),
            !.formatted = TRUE]

\* Diagram.format
DiagramFormat(root, args) ==
    LET width == root.width + PaddingLeft(args) + PaddingRight(args)
        height == root.up + root.height + root.down + PaddingTop(args) + PaddingBottom(args)
    IN  [root EXCEPT
            !.items = FormatAt(@, Range(0, Len(root.items), 1)),
            !.attrs = [width |-> width, height |-> height,
                       viewBox |-> <<0, 0, width, height>>] @@ @,
            !.children = Append(@, DiagramGroup(root)),
            !.formatted = TRUE]

----------------------------------------------------------------------------
(* Where Choice.format and OneOrMore.format put the branches *)

\* a branch put at height y, the 0-based subscript `index` of its item, and
\* the lengths handed to up() / down() of the connector that enters it and of
\* the one that leaves it (None for the branch on the main line)
Place(index, item, y, enter, leave) ==
    [index |-> index, item |-> item, y |-> y, enter |-> enter, leave |-> leave]

RECURSIVE ChoiceFormatAbove(_, _, _, _)
\* for i in range(self.default - 1, -1, -1), distance_from_y being dist
ChoiceFormatAbove(node, y, i, dist) ==
    IF i < 0 THEN <<>>
    ELSE LET item == PyIndex(node.items, i)
             lower_item == PyIndex(node.items, i + 1)
             default == PyIndex(node.items, node.default)
             distance_from_y == dist + lower_item.up + PyIndex(node.separators, i)
                                + item.down + item.height
             AR2 == node.parameters["AR"] * 2
         IN  <<Place(i, item, y - distance_from_y,
                     distance_from_y - AR2,
                     distance_from_y - item.height + default.height - AR2)>>
             \o ChoiceFormatAbove(node, y, i - 1, distance_from_y)

RECURSIVE ChoiceFormatBelow(_, _, _, _)
\* for i in range(self.default + 1, len(self.items)), distance_from_y being dist
ChoiceFormatBelow(node, y, i, dist) ==
    IF i >= Len(node.items) THEN <<>>
    ELSE LET item == PyIndex(node.items, i)
             upper_item == PyIndex(node.items, i - 1)
             default == PyIndex(node.items, node.default)
             distance_from_y == dist + upper_item.height + upper_item.down
                                + PyIndex(node.separators, i - 1) + item.up
             AR2 == node.parameters["AR"] * 2
         IN  <<Place(i, item, y + distance_from_y,
                     distance_from_y - AR2,
                     distance_from_y - AR2 + item.height - default.height)>>
             \o ChoiceFormatBelow(node, y, i + 1, distance_from_y)

\* Choice.format(x, y, width): the branches in the order they are drawn
ChoiceFormat(node, y) ==
    ChoiceFormatAbove(node, y, node.default - 1, 0)
    \o <<Place(node.default, PyIndex(node.items, node.default), y, None, None)>>
    \o ChoiceFormatBelow(node, y, node.default + 1, 0)

\* OneOrMore.format(x, y, width): the item, then the repeat
OneOrMoreFormat(node, y) ==
    LET P == node.parameters
        distance_from_y == Max2(P["AR"] * 2,
                                node.item.height + node.item.down + P["VS"] + node.rep.up)
    IN  <<Place(0, node.item, y, None, None),
          Place(1, node.rep, y + distance_from_y,
                distance_from_y - P["AR"] * 2,
                distance_from_y - P["AR"] * 2 + node.rep.height - node.item.height)>>

----------------------------------------------------------------------------
(* The dictionaries and parameters the model hands to from_dict *)

TextDict(kind, text) ==
    [element |-> kind, text |-> text, href |-> None, title |-> None, cls |-> ""]
SkipDict == [element |-> "Skip"]
TermDict == TextDict("Terminal", "x")
StartDict == [element |-> "Start", type |-> "simple", label |-> None]
EndDict == [element |-> "End", type |-> "simple"]

LeafDicts ==
    {[element |-> "Terminal", text |-> "foo"],
     TermDict,
     [element |-> "NonTerminal", text |-> "x", href |-> "h", title |-> "t", cls |-> "c"],
     TextDict("Comment", "x"),
     TextDict("Expression", "x"),
     [element |-> "Expression", text |-> "x", href |-> "h"],
     SkipDict,
     [element |-> "Start"], StartDict,
     [element |-> "Start", type |-> "sql", label |-> "go"],
     [element |-> "End"], EndDict,
     [element |-> "End", type |-> "complex"],
     [element |-> "Arrow"],
     [element |-> "Arrow", direction |-> "left"],
     [element |-> "Unknown"],
     [text |-> "x"],
     [element |-> "Terminal"],
     [element |-> "Sequence"]}

ItemLeaves == {SkipDict, TermDict}
ItemLists == UNION {[1..n -> ItemLeaves] : n \in 0..MaxItems}

Containers == {"Sequence", "Stack", "HorizontalChoice", "OptionalSequence",
               "AlternatingSequence", "Diagram"}
Container(kind, items) == [element |-> kind, items |-> items]

\* the defaults tried: from -MaxItems up to 5, the default of the
\* specification's out-of-range example, when that is further out
Defaults == (0 - MaxItems)..Max2(MaxItems, 5)
Types == {"any", "all", "xor"}

ChoiceDicts ==
    {[element |-> "Choice", default |-> k, items |-> its] : k \in Defaults, its \in ItemLists}
    \cup {[element |-> "Choice", items |-> its] : its \in ItemLists}

MultipleChoiceDicts ==
    {[element |-> "MultipleChoice", default |-> k, type |-> t, items |-> its] :
        k \in Defaults, t \in Types, its \in ItemLists}
    \cup {[element |-> "MultipleChoice", items |-> <<TermDict, SkipDict>>],
          [element |-> "MultipleChoice", default |-> 0, items |-> <<TermDict, SkipDict>>]}

ItemDicts ==
    {[element |-> "OneOrMore", item |-> TermDict],
     [element |-> "OneOrMore", item |-> TermDict, repeat |-> NoneValue],
     [element |-> "OneOrMore", item |-> TermDict, repeat |-> SkipDict],
     [element |-> "OneOrMore", item |-> TermDict, repeat |-> TextDict("Comment", "x")],
     [element |-> "OneOrMore", repeat |-> SkipDict],
     [element |-> "OneOrMore", item |-> SkipDict, repeat |-> TermDict],
     [element |-> "Optional", item |-> TermDict],
     [element |-> "Optional", item |-> TermDict, skip |-> TRUE],
     [element |-> "Optional", item |-> TermDict, skip |-> FALSE],
     [element |-> "ZeroOrMore", item |-> TermDict],
     [element |-> "ZeroOrMore", item |-> TermDict, repeat |-> TextDict("Comment", "x"),
      skip |-> TRUE],
     [element |-> "Group", item |-> TermDict],
     [element |-> "Group", item |-> TermDict, label |-> NoneValue],
     [element |-> "Group", item |-> TermDict, label |-> Str("lbl")],
     [element |-> "Group", item |-> TermDict, label |-> Str("")],
     [element |-> "Group", item |-> SkipDict, label |-> TextDict("Comment", "lbl")],
     [element |-> "Group", item |-> TermDict, label |-> [text |-> "x"]]}

DiagramDicts ==
    {Container("Diagram", its) :
        its \in {<<[element |-> "Terminal", text |-> "foo"]>>,
                 <<EndDict, StartDict>>,
                 <<StartDict, TermDict, EndDict>>, <<StartDict, TermDict>>,
                 <<TermDict, EndDict>>, <<StartDict, EndDict>>,
                 <<[element |-> "Start", type |-> "sql", label |-> "go"], SkipDict,
                   [element |-> "End", type |-> "complex"]>>}}

Level1 ==
    {Container(kind, its) : kind \in Containers, its \in ItemLists}
    \cup ChoiceDicts \cup MultipleChoiceDicts \cup ItemDicts \cup DiagramDicts

\* the dictionaries nested inside others
Inner ==
    {[element |-> "Choice", items |-> <<SkipDict, TermDict>>],
     [element |-> "Choice", default |-> 1, items |-> <<SkipDict, TermDict>>],
     [element |-> "Choice", default |-> 5, items |-> <<SkipDict, TermDict>>],
     [element |-> "Choice", default |-> -1, items |-> <<SkipDict, TermDict>>],
     [element |-> "MultipleChoice", default |-> 1, type |-> "all",
      items |-> <<SkipDict, TermDict>>],
     [element |-> "MultipleChoice", default |-> 0, type |-> "xor",
      items |-> <<SkipDict, TermDict>>],
     [element |-> "Optional", item |-> TermDict],
     [element |-> "ZeroOrMore", item |-> TermDict],
     [element |-> "OneOrMore", item |-> TermDict],
     [element |-> "OneOrMore", item |-> TermDict, repeat |-> SkipDict],
     [element |-> "Group", item |-> TermDict, label |-> Str("lbl")],
     [element |-> "Group", item |-> TermDict, label |-> NoneValue],
     Container("HorizontalChoice", <<TermDict>>),
     Container("HorizontalChoice", <<TermDict, SkipDict>>),
     Container("OptionalSequence", <<TermDict, SkipDict>>),
     Container("AlternatingSequence", <<TermDict, SkipDict>>),
     Container("AlternatingSequence", <<TermDict, SkipDict, TermDict>>),
     Container("Stack", <<TermDict, SkipDict>>),
     Container("Sequence", <<>>),
     Container("Sequence", <<TermDict>>),
     [element |-> "Unknown"],
     [element |-> "Bogus"],
     [text |-> "x"]}

InnerLists == UNION {{<<a>>, <<a, TermDict>>, <<SkipDict, a>>} : a \in Inner}

Level2 ==
    {Container(kind, its) : kind \in {"Sequence", "Diagram", "AlternatingSequence"},
                            its \in InnerLists}
    \cup {Container("Diagram", <<StartDict, a, EndDict>>) : a \in Inner}
    \cup {[element |-> "Choice", default |-> k, items |-> its] :
            its \in InnerLists, k \in 0..1}
    \cup {[element |-> "MultipleChoice", default |-> k, type |-> "any", items |-> its] :
            its \in InnerLists, k \in 0..1}
    \cup {[element |-> "OneOrMore", item |-> a, repeat |-> a] : a \in Inner}
    \cup {[element |-> "Group", item |-> a, label |-> a] : a \in Inner}

Level3 ==
    {Container("Diagram", <<StartDict, Container("Sequence", <<a, TermDict>>), EndDict>>) :
        a \in Inner}

Dicts == LeafDicts \cup Level1 \cup Level2 \cup Level3

\* the parameters dictionaries
AsciiParameters == [formatting |-> "ascii"]
CustomParameters ==
    [formatting |-> "unicode", AR |-> 12, VS |-> 6, char_width |-> 9,
     comment_char_width |-> 6, type |-> "complex", diagram_class |-> "rr",
     stroke_odd_pixel_length |-> FALSE, internal_alignment |-> "left", debug |-> TRUE]
ParameterSets == {NoParameters, AsciiParameters, CustomParameters}

\* the keyword arguments of the explicit Diagram.format calls
FormatArgs == {<<>>, [padding_top |-> 10],
               [padding_top |-> 10, padding_right |-> 5, padding_bottom |-> 3,
                padding_left |-> 7]}

\* the css arguments of write_standalone: None selects the bundled style sheet
StyleSheets == {None, "svg { }"}

----------------------------------------------------------------------------
(* The writers of Diagram *)

\* the sub-nodes of a node, in a fixed order
SubNodes(node) ==
    IF "items" \in DOMAIN node THEN node.items
    ELSE IF node.kind = "OneOrMore" THEN <<node.item, node.rep>>
    ELSE IF node.kind = "Group"
         THEN <<node.item>> \o (IF node.label # NoneValue THEN <<node.label>> ELSE <<>>)
    ELSE <<>>

RECURSIVE Drawn(_)
\* DiagramItem.write_svg: the document written for a node is its tag name,
\* its attributes and, recursively, its children
Drawn(node) ==
    [name |-> node.name, attrs |-> node.attrs, children |-> node.children,
     items |-> [i \in 1..Len(SubNodes(node)) |-> Drawn(SubNodes(node)[i])]]

Style(css) == [name |-> "style", css |-> css]

\* DiagramItem.write_svg on the root r: the root, and the document written
Wrote(r) == [root |-> r, out |-> Drawn(r)]

\* write_svg without the test of self.formatted: the fault C1 guards against
write_svg_unguarded(root) == Wrote(DiagramFormat(root, <<>>))

\* Diagram.write_svg: the root as the call leaves it, and what it wrote
write_svg(root) ==
    Wrote(IF ~root.formatted THEN DiagramFormat(root, <<>>) ELSE root)

\* the root with the style sheet and the namespaces write_standalone adds
Styled(r, css) ==
    [r EXCEPT
        !.children = Append(@, Style(IF css = None THEN "default.css" ELSE css)),
        !.attrs = [xmlns |-> "http://www.w3.org/2000/svg",
                   xmlns_xlink |-> "http://www.w3.org/1999/xlink"] @@ @]

\* the styled root written, the namespaces deleted and the style sheet left
Unrestored(styled) ==
    [root |-> [styled EXCEPT
                 !.attrs = [k \in DOMAIN @ \ {"xmlns", "xmlns_xlink"} |-> @[k]]],
     out |-> Drawn(styled)]

\* write_standalone without self.children.pop(): the fault C2 guards against
write_standalone_unrestored(root, css) ==
    Unrestored(Styled(IF ~root.formatted THEN DiagramFormat(root, <<>>) ELSE root, css))

\* the styled root written, then self.children.pop() and the two del
Restored(styled) ==
    [root |-> [styled EXCEPT
                 !.children = SubSeq(@, 1, Len(@) - 1),
                 !.attrs = [k \in DOMAIN @ \ {"xmlns", "xmlns_xlink"} |-> @[k]]],
     out |-> Drawn(styled)]

\* Diagram.write_standalone
write_standalone(root, css) ==
    Restored(Styled(IF ~root.formatted THEN DiagramFormat(root, <<>>) ELSE root, css))

\* Diagram.write_standalone with a write callback that raises: the exception
\* leaves DiagramItem.write_svg and write_standalone at once, before
\* self.children.pop() and the two del
write_standalone_raising(root, css) ==
    [root |-> Styled(IF ~root.formatted THEN DiagramFormat(root, <<>>) ELSE root, css),
     out |-> [interrupted |-> TRUE]]

----------------------------------------------------------------------------
(* The state machine: a tree is built from a dictionary, then formatted, *)
(* written and rendered as text                                          *)

NoTree == [kind |-> "unbuilt"]
NoData == [element |-> "unbuilt"]
NoRender == [which |-> "none"]
NoWrite == [by |-> "none"]
NoPadding == [format |-> "never"]
NoLayout == [y |-> "none"]
NoGrid == [op |-> "none"]
NoParse == [call |-> "none"]

IsTree(v) == IsNode(v) /\ v # NoTree
IsDiagram(v) == IsTree(v) /\ v.kind = "Diagram"

Init ==
    /\ FORMATTING \in {"ascii", "unicode"}
    /\ parts = "unset"
    /\ tree = NoTree
    /\ data = NoData
    /\ data0 = NoData
    /\ given = NoParameters
    /\ other = NoTree
    /\ otherGiven = NoParameters
    /\ rendered = NoRender
    /\ written = NoWrite
    /\ padding = NoPadding
    /\ laid = NoLayout
    /\ grid = NoGrid
    /\ parsed = NoParse

\* tree = DiagramItem.from_dict(d, p)
BuildFrom(d, p) ==
    /\ tree = NoTree
    /\ \E r \in {from_dict(d, p, parts)} :
          /\ tree' = r.val
          /\ data' = r.data
          /\ parts' = r.parts
    /\ data0' = d
    /\ given' = p
    /\ UNCHANGED <<FORMATTING, other, otherGiven, rendered, written, padding, laid,
                   grid, parsed>>

Build == \E d \in Dicts, p \in ParameterSets : BuildFrom(d, p)

\* tree.format(**args), called by the front end
Format ==
    /\ IsDiagram(tree)
    /\ Len(tree.children) < MaxChildren
    /\ \E args \in FormatArgs :
          /\ tree' = DiagramFormat(tree, args)
          /\ padding' = args
    /\ parts' = PartsFor(NoParameters)
    /\ UNCHANGED <<FORMATTING, data, data0, given, other, otherGiven, rendered, written, laid,
                   grid, parsed>>

\* tree.write_svg(write)
WriteSvg ==
    /\ IsDiagram(tree)
    /\ \E w \in {write_svg(tree)} :
          /\ tree' = w.root
          /\ written' = [by |-> "write_svg", out |-> w.out,
                          ranFormat |-> ~tree.formatted]
    /\ parts' = IF tree.formatted THEN parts ELSE PartsFor(NoParameters)
    /\ padding' = IF tree.formatted THEN padding ELSE <<>>
    /\ UNCHANGED <<FORMATTING, data, data0, given, other, otherGiven, rendered, laid,
                   grid, parsed>>

\* tree.write_standalone(write, css)
WriteStandalone(css) ==
    /\ IsDiagram(tree)
    /\ \E w \in {write_standalone(tree, css)} :
          /\ tree' = w.root
          /\ written' = [by |-> "write_standalone", out |-> w.out,
                          ranFormat |-> ~tree.formatted]
    /\ parts' = IF tree.formatted THEN parts ELSE PartsFor(NoParameters)
    /\ padding' = IF tree.formatted THEN padding ELSE <<>>
    /\ UNCHANGED <<FORMATTING, data, data0, given, other, otherGiven, rendered, laid,
                   grid, parsed>>

\* tree.text_diagram(): the rendering reads the glyph table as it stands
TextDiagram ==
    /\ IsTree(tree)
    /\ rendered' = [which |-> "tree", glyph |-> parts]
    /\ UNCHANGED <<FORMATTING, parts, tree, data, data0, given, other, otherGiven, written,
                   padding, laid,
                   grid, parsed>>

\* tree.write_text(write)
WriteText ==
    /\ IsDiagram(tree)
    /\ rendered' = [which |-> "tree", glyph |-> parts]
    /\ written' = [by |-> "write_text", glyph |-> parts]
    /\ UNCHANGED <<FORMATTING, parts, tree, data, data0, given, other, otherGiven, padding, laid,
                   grid, parsed>>

Standalone == \E css \in StyleSheets : WriteStandalone(css)

\* tree.write_standalone(write, css) with a write that raises
WriteStandaloneRaising(css) ==
    /\ IsDiagram(tree)
    /\ Len(tree.children) < MaxChildren
    /\ \E w \in {write_standalone_raising(tree, css)} :
          /\ tree' = w.root
          /\ written' = [by |-> "write_standalone", out |-> w.out,
                          ranFormat |-> ~tree.formatted]
    /\ parts' = IF tree.formatted THEN parts ELSE PartsFor(NoParameters)
    /\ padding' = IF tree.formatted THEN padding ELSE <<>>
    /\ UNCHANGED <<FORMATTING, data, data0, given, other, otherGiven, rendered, laid,
                   grid, parsed>>

StandaloneRaising == \E css \in StyleSheets : WriteStandaloneRaising(css)

Next ==
    \/ Build
    \/ Format
    \/ WriteSvg
    \/ Standalone
    \/ TextDiagram
    \/ WriteText

Spec == Init /\ [][Next]_vars

\* the writers alone, on a tree no front end formats beforehand
NextWriters ==
    \/ Build
    \/ WriteSvg
    \/ Standalone

SpecWriters == Init /\ [][NextWriters]_vars

\* the writers, handed a write callback that may raise
NextRaising ==
    \/ Build
    \/ WriteSvg
    \/ Standalone
    \/ StandaloneRaising

SpecRaising == Init /\ [][NextRaising]_vars

----------------------------------------------------------------------------
(* Properties of the writers *)

RECURSIVE AllNodes(_)
\* the nodes of a tree
AllNodes(node) ==
    {node} \cup UNION {AllNodes(SubNodes(node)[i]) : i \in 1..Len(SubNodes(node))}

RECURSIVE Measure(_)
\* the measurement fields of every node of a tree
Measure(node) ==
    [up |-> node.up, height |-> node.height, down |-> node.down, width |-> node.width,
     needs_space |-> node.needs_space,
     items |-> [i \in 1..Len(SubNodes(node)) |-> Measure(SubNodes(node)[i])]]

\* a format() of the node constructs a DiagramItem (a rect, a text, a title):
\* the node holds a text element, a Group, a MultipleChoice or a labelled Start
FormatBuilds(node) ==
    \E n \in AllNodes(node) :
        \/ n.kind \in {"Terminal", "NonTerminal", "Expression", "Comment", "Group",
                       "MultipleChoice"}
        \/ n.kind = "Start" /\ n.label # None /\ n.label # ""

\* the heights y a root is laid out at
Heights == {0, 37}

\* tree.format(x, y, width), on a root that is a Choice
FormatChoice ==
    /\ IsTree(tree) /\ tree.kind = "Choice" /\ tree.children = <<>>
    /\ \E y \in Heights :
          laid' = [y |-> y, places |-> ChoiceFormat(tree, y)]
    /\ tree' = format(tree)
    /\ parts' = IF FormatBuilds(tree) THEN PartsFor(NoParameters) ELSE parts
    /\ UNCHANGED <<FORMATTING, data, data0, given, other, otherGiven, rendered,
                   written, padding,
                   grid, parsed>>

\* tree.format(x, y, width), on a root that is a OneOrMore
FormatOneOrMore ==
    /\ IsTree(tree) /\ tree.kind = "OneOrMore" /\ tree.children = <<>>
    /\ \E y \in Heights :
          laid' = [y |-> y, places |-> OneOrMoreFormat(tree, y)]
    /\ tree' = format(tree)
    /\ parts' = IF FormatBuilds(tree) THEN PartsFor(NoParameters) ELSE parts
    /\ UNCHANGED <<FORMATTING, data, data0, given, other, otherGiven, rendered,
                   written, padding,
                   grid, parsed>>

NextLayout ==
    \/ Build
    \/ FormatChoice
    \/ FormatOneOrMore

SpecLayout == Init /\ [][NextLayout]_vars

----------------------------------------------------------------------------
(* The text grids: a line is a tuple of one-cell glyphs, a grid a tuple  *)
(* of lines, rows counted from 0 as the code counts them. A glyph of the *)
(* table is written by the name of its part.                             *)

\* pad * n, and " " * n
Cells(pad, n) == [j \in 1..n |-> pad]
\* [line] * n
Lines(line, n) == [i \in 1..n |-> line]

\* TextDiagram.__init__(entry, exit, lines)
TextDiagramInit(entry, exit, lines) ==
    IF ~(entry <= Len(lines)) THEN Err("AssertionError")
    ELSE IF ~(exit <= Len(lines)) THEN Err("AssertionError")
    ELSE IF \E i \in 1..Len(lines) : Len(lines[1]) # Len(lines[i])
    THEN Err("AssertionError")
    ELSE [entry |-> entry, exit |-> exit, height |-> Len(lines), lines |-> lines,
          width |-> IF Len(lines) > 0 THEN Len(lines[1]) ELSE 0]

\* TextDiagram.alter(entry, exit, lines): an argument left out or None is
\* the empty tuple, one given is <<value>>
alter(self, entry, exit, lines) ==
    LET new_entry == IF entry # <<>> /\ entry[1] # 0 THEN entry[1] ELSE self.entry
        new_exit == IF exit # <<>> /\ exit[1] # 0 THEN exit[1] ELSE self.exit
        new_lines == IF lines # <<>> /\ lines[1] # <<>> THEN lines[1] ELSE self.lines
    IN  TextDiagramInit(new_entry, new_exit, new_lines)

\* TextDiagram.copy()
copy(self) == TextDiagramInit(self.entry, self.exit, self.lines)

\* TextDiagram._enclose_lines(lines, lefts, rights)
enclose_lines(lines, lefts, rights) ==
    [i \in 1..Len(lines) |-> lefts[i] \o lines[i] \o rights[i]]

\* TextDiagram.center(width, pad)
center(self, width, pad) ==
    IF ~(width >= self.width) THEN Err("AssertionError")
    ELSE IF width = self.width THEN copy(self)
    ELSE LET total_padding == width - self.width
             left_width == total_padding \div 2
             left == Lines(Cells(pad, left_width), self.height)
             right == Lines(Cells(pad, total_padding - left_width), self.height)
         IN  TextDiagramInit(self.entry, self.exit,
                             enclose_lines(self.lines, left, right))

\* TextDiagram.expand(left, right, top, bottom), TextDiagram.parts being g
expand(self, left, right, top, bottom, g) ==
    IF left < 0 \/ right < 0 \/ top < 0 \/ bottom < 0 THEN Err("AssertionError")
    ELSE IF left + right + top + bottom = 0 THEN copy(self)
    ELSE IF g = "unset" THEN Err("AttributeError")
    ELSE LET blank == Cells(" ", self.width + left + right)
             row(i) == Cells(IF i = self.entry THEN "line" ELSE " ", left)
                       \o self.lines[i + 1]
                       \o Cells(IF i = self.exit THEN "line" ELSE " ", right)
         IN  TextDiagramInit(self.entry + top, self.exit + top,
                             Lines(blank, top)
                             \o [i \in 1..self.height |-> row(i - 1)]
                             \o Lines(blank, bottom))

\* TextDiagram._padL(string, width, pad), pad being one cell
padL(string, width, pad) == Cells(pad, width - Len(string)) \o string

\* TextDiagram._padR(string, width, pad), pad being one cell
padR(string, width, pad) == string \o Cells(pad, width - Len(string))

\* TextDiagram.append_below(item, lines_between, move_entry, move_exit)
append_below(self, item, lines_between, move_entry, move_exit) ==
    LET new_width == Max2(self.width, item.width)
        between == [i \in 1..Len(lines_between) |->
                        padR(lines_between[i], new_width, " ")]
        new_lines == center(self, new_width, " ").lines \o between
                     \o center(item, new_width, " ").lines
        new_entry == IF move_entry
                     THEN self.height + Len(lines_between) + item.entry
                     ELSE self.entry
        new_exit == IF move_exit
                    THEN self.height + Len(lines_between) + item.exit
                    ELSE self.exit
    IN  TextDiagramInit(new_entry, new_exit, new_lines)

\* append_right without the alignment of the two grids
append_right_unaligned(self, item, charsBetween) ==
    TextDiagramInit(self.entry, item.exit,
                    [i \in 1..Max2(self.height, item.height) |->
                        (IF i <= self.height THEN self.lines[i]
                         ELSE Cells(" ", self.width))
                        \o (IF i = self.exit + 1 THEN charsBetween
                            ELSE Cells(" ", Len(charsBetween)))
                        \o (IF i <= item.height THEN item.lines[i]
                            ELSE Cells(" ", item.width))])

\* TextDiagram.append_right(item, charsBetween); the two expand calls add
\* rows only and read no glyph
append_right(self, item, charsBetween) ==
    LET join_line == Max2(self.exit, item.entry)
        new_height == Max2(self.height - self.exit, item.height - item.entry) + join_line
        left_top_add == join_line - self.exit
        left_bot_add == new_height - self.height - left_top_add
        right_top_add == join_line - item.entry
        right_bot_add == new_height - item.height - right_top_add
        left == expand(self, 0, 0, left_top_add, left_bot_add, "any")
        right == expand(item, 0, 0, right_top_add, right_bot_add, "any")
        sep(i) == IF i # join_line THEN Cells(" ", Len(charsBetween)) ELSE charsBetween
    IN  IF IsErr(left) THEN left
        ELSE IF IsErr(right) THEN right
        ELSE TextDiagramInit(self.entry + left_top_add, item.exit + right_top_add,
                             [i \in 1..new_height |->
                                 left.lines[i] \o sep(i - 1) \o right.lines[i]])

\* TextDiagram._gaps(outer_width, inner_width, internal_alignment)
gaps(outer_width, inner_width, internal_alignment) ==
    LET diff == outer_width - inner_width
    IN  IF internal_alignment = "left" THEN <<0, diff>>
        ELSE IF internal_alignment = "right" THEN <<diff, 0>>
        ELSE <<diff \div 2, diff - diff \div 2>>

\* TextDiagram._rectish(rect_type, data), data being a string, for "rect" and
\* "round_rect" with solid lines: every side is one cell wide
rectish(rect_type, string, g) ==
    IF g = "unset" THEN Err("AttributeError")
    ELSE LET w == Len(string)
             lines == <<Cells(rect_type \o "_top", w + 2),
                        <<" ">> \o Cells("char", w) \o <<" ">>,
                        Cells(rect_type \o "_bot", w + 2)>>
             boxed == enclose_lines(lines,
                         <<<<rect_type \o "_top_left">>, <<rect_type \o "_left">>,
                           <<rect_type \o "_bot_left">>>>,
                         <<<<rect_type \o "_top_right">>, <<rect_type \o "_right">>,
                           <<rect_type \o "_bot_right">>>>)
         IN  TextDiagramInit(1, 1,
                 enclose_lines(boxed, <<<<" ">>, <<"line">>, <<" ">>>>,
                               <<<<" ">>, <<"line">>, <<" ">>>>))

\* the joint Choice.text_diagram puts left of the row i of the item
\* item_num out of n, the item's entry row being entry
ChoiceLeftCell(default, n, item_num, entry, i) ==
    IF i = entry
    THEN IF item_num = default
         THEN IF item_num = 0 /\ item_num = n - 1 THEN "line"
              ELSE IF item_num = 0 THEN "round_corner_top_right"
              ELSE IF item_num = n - 1 THEN "round_corner_bot_right"
              ELSE "cross"
         ELSE IF item_num >= default THEN "round_corner_bot_left"
         ELSE "round_corner_top_left"
    ELSE IF item_num <= default /\ item_num = 0 /\ i < entry THEN " "
    ELSE IF item_num >= default /\ item_num = n - 1 /\ i > entry THEN " "
    ELSE "line_vertical"

\* the joint it puts right of the row i, the item's exit row being exit
ChoiceRightCell(default, n, item_num, exit, i) ==
    IF i = exit
    THEN IF item_num = default
         THEN IF item_num = 0 /\ item_num = n - 1 THEN "line"
              ELSE IF item_num = 0 THEN "round_corner_top_left"
              ELSE IF item_num = n - 1 THEN "round_corner_bot_left"
              ELSE "cross"
         ELSE IF item_num >= default THEN "round_corner_bot_right"
         ELSE "round_corner_top_right"
    ELSE IF item_num <= default /\ item_num = 0 /\ i < exit THEN " "
    ELSE IF item_num >= default /\ item_num = n - 1 /\ i > exit THEN " "
    ELSE "line_vertical"

\* the item between its two joints
ChoiceJoined(default, n, item_num, item_td) ==
    append_right(
        append_right(
            TextDiagramInit(item_td.entry, item_td.entry,
                [i \in 1..item_td.height |->
                    <<ChoiceLeftCell(default, n, item_num, item_td.entry, i - 1)>>]),
            item_td, <<>>),
        TextDiagramInit(item_td.exit, item_td.exit,
            [i \in 1..item_td.height |->
                <<ChoiceRightCell(default, n, item_num, item_td.exit, i - 1)>>]),
        <<>>)

\* one turn of the loop of Choice.text_diagram: item_td joined and put
\* below diagram_td, under a separator unless it is the first item
ChoiceBelowText(default, item_num, diagram_td, item_td) ==
    append_below(diagram_td, item_td,
                 IF item_num = 0 THEN <<>>
                 ELSE << <<"line_vertical">>
                         \o Cells(" ", Max2(diagram_td.width, item_td.width) - 2)
                         \o <<"line_vertical">> >>,
                 item_num = default, item_num = default)

RECURSIVE ChoiceTextLoop(_, _, _, _, _, _)
\* the loop of Choice.text_diagram from item_num on
ChoiceTextLoop(node, items_td, max_item_width, item_num, diagram_td, g) ==
    IF item_num >= Len(items_td) \/ IsErr(diagram_td) THEN diagram_td
    ELSE LET pads == gaps(max_item_width, items_td[item_num + 1].width,
                          Get(node.parameters, "internal_alignment",
                              DefaultParameters["internal_alignment"]))
         IN  ChoiceTextLoop(node, items_td, max_item_width, item_num + 1,
                 ChoiceBelowText(node.default, item_num, diagram_td,
                     ChoiceJoined(node.default, Len(items_td), item_num,
                         expand(items_td[item_num + 1], pads[1], pads[2], 0, 0, g))),
                 g)

\* Choice.text_diagram(), items_td being its items' grids
ChoiceText(node, items_td, g) ==
    ChoiceTextLoop(node, items_td, MaxSeq([i \in 1..Len(items_td) |-> items_td[i].width]),
                   0, TextDiagramInit(0, 0, <<>>), g)

\* the kinds whose text_diagram is modelled
TextDrawn == {"Skip", "Terminal", "NonTerminal", "Comment", "Choice"}

RECURSIVE text_diagram(_, _)
\* node.text_diagram(), TextDiagram.parts being g
text_diagram(node, g) ==
    IF g = "unset" THEN Err("AttributeError")
    ELSE IF node.kind = "Skip" THEN TextDiagramInit(0, 0, <<<<"line">>>>)
    ELSE IF node.kind = "Terminal" THEN rectish("round_rect", node.text, g)
    ELSE IF node.kind = "NonTerminal" THEN rectish("rect", node.text, g)
    ELSE IF node.kind = "Comment"
    THEN TextDiagramInit(0, 0, <<Cells("char", Len(node.text))>>)
    ELSE ChoiceText(node,
                    [i \in 1..Len(node.items) |->
                        expand(text_diagram(node.items[i], g), 1, 1, 0, 0, g)],
                    g)

\* the grids the calls are made on: every height and width within the bounds,
\* every entry and exit row, as the constructor returns them
MaxRows == 2
MaxCols == 3

TextDiagrams(c) ==
    {TextDiagramInit(t[1], t[2], Lines(Cells(c, t[4]), t[3])) :
        t \in {u \in (0..MaxRows - 1) \X (0..MaxRows - 1) \X (1..MaxRows) \X (1..MaxCols) :
                  u[1] < u[3] /\ u[2] < u[3]}}

CharsBetween == {<<>>, <<"line">>, <<"line", "line">>}
LinesBetween == {<<>>, <<Cells("line_vertical", 1)>>,
                 <<Cells("line_vertical", MaxCols + 1)>>,
                 <<Cells("line_vertical", 1), Cells("line_vertical", MaxCols)>>}
Amounts == -1..1
Rows == {<<>>} \cup {<<e>> : e \in 0..MaxRows}
NewLines == {<<>>, <<<<>>>>} \cup {<<Lines(Cells("c", 1), h)>> : h \in 1..MaxRows}

\* the grids a call is made on, drawn before the call: self alone for
\* center, expand and alter, self and item for the two appends
Called(op, args, result) == [op |-> op, result |-> result] @@ args @@ grid
OnSelf == grid.op = "none" /\ DOMAIN grid = {"op", "self"}
OnSelfAndItem == grid.op = "none" /\ DOMAIN grid = {"op", "self", "item"}

InitText ==
    /\ FORMATTING \in {"ascii", "unicode"}
    /\ parts = "unset"
    /\ tree = NoTree
    /\ data = NoData
    /\ data0 = NoData
    /\ given = NoParameters
    /\ other = NoTree
    /\ otherGiven = NoParameters
    /\ rendered = NoRender
    /\ written = NoWrite
    /\ padding = NoPadding
    /\ laid = NoLayout
    /\ parsed = NoParse
    /\ \/ \E self \in TextDiagrams("a") : grid = [op |-> "none", self |-> self]
       \/ \E self \in TextDiagrams("a"), item \in TextDiagrams("b") :
             grid = [op |-> "none", self |-> self, item |-> item]

\* TextDiagram.set_formatting(characters)
SetFormatting ==
    /\ \E characters \in {"ascii", "unicode"} : parts' = set_formatting(characters)
    /\ UNCHANGED <<FORMATTING, tree, data, data0, given, other, otherGiven, rendered,
                   written, padding, laid, grid, parsed>>

\* self.append_right(item, charsBetween)
AppendRight ==
    /\ OnSelfAndItem
    /\ \E charsBetween \in CharsBetween :
          grid' = Called("append_right", [charsBetween |-> charsBetween],
                         append_right(grid.self, grid.item, charsBetween))
    /\ UNCHANGED <<FORMATTING, parts, tree, data, data0, given, other, otherGiven,
                   rendered, written, padding, laid, parsed>>

\* self.append_below(item, lines_between, move_entry, move_exit)
AppendBelow ==
    /\ OnSelfAndItem
    /\ \E lines_between \in LinesBetween, move_entry \in BOOLEAN, move_exit \in BOOLEAN :
          grid' = Called("append_below",
                         [lines_between |-> lines_between,
                          move_entry |-> move_entry, move_exit |-> move_exit],
                         append_below(grid.self, grid.item, lines_between,
                                      move_entry, move_exit))
    /\ UNCHANGED <<FORMATTING, parts, tree, data, data0, given, other, otherGiven,
                   rendered, written, padding, laid, parsed>>

\* self.center(width, " ")
Center ==
    /\ OnSelf
    /\ \E width \in 0..MaxCols + 2 :
          grid' = Called("center", [width |-> width], center(grid.self, width, " "))
    /\ UNCHANGED <<FORMATTING, parts, tree, data, data0, given, other, otherGiven,
                   rendered, written, padding, laid, parsed>>

\* self.expand(left, right, top, bottom)
Expand ==
    /\ OnSelf
    /\ \E left \in Amounts, right \in Amounts, top \in Amounts, bottom \in Amounts :
          grid' = Called("expand",
                         [left |-> left, right |-> right, top |-> top, bottom |-> bottom],
                         expand(grid.self, left, right, top, bottom, parts))
    /\ UNCHANGED <<FORMATTING, parts, tree, data, data0, given, other, otherGiven,
                   rendered, written, padding, laid, parsed>>

\* self.alter(entry, exit, lines)
Alter ==
    /\ OnSelf
    /\ \E entry \in Rows, exit \in Rows, lines \in NewLines :
          grid' = Called("alter", [entry |-> entry, exit |-> exit, lines |-> lines],
                         alter(grid.self, entry, exit, lines))
    /\ UNCHANGED <<FORMATTING, parts, tree, data, data0, given, other, otherGiven,
                   rendered, written, padding, laid, parsed>>

NextText ==
    \/ SetFormatting
    \/ AppendRight
    \/ AppendBelow
    \/ Center
    \/ Expand
    \/ Alter

SpecText == InitText /\ [][NextText]_vars

\* tree.text_diagram(), on a root that is a Choice of items whose
\* text_diagram is modelled
ChoiceTextDiagram ==
    /\ IsTree(tree) /\ tree.kind = "Choice"
    /\ \A n \in AllNodes(tree) : n.kind \in TextDrawn
    /\ grid' = [op |-> "text_diagram",
                items |-> [i \in 1..Len(tree.items) |-> text_diagram(tree.items[i], parts)],
                result |-> text_diagram(tree, parts)]
    /\ rendered' = [which |-> "tree", glyph |-> parts]
    /\ UNCHANGED <<FORMATTING, parts, tree, data, data0, given, other, otherGiven,
                   written, padding, laid, parsed>>

NextChoiceText ==
    \/ Build
    \/ ChoiceTextDiagram

SpecChoiceText == Init /\ [][NextChoiceText]_vars

----------------------------------------------------------------------------
(* The front end: parser.py, over the classes of railroad.py. A node of  *)
(* railroad.py is held by its kind, its text and its items.              *)

\* the class Diagram, as parse_json puts it under "element"
DiagramClass == "<class 'pyrailroad.railroad.Diagram'>"

\* the cases of the match in railroad.DiagramItem.from_dict
RailroadKinds ==
    {"Diagram", "Start", "End", "Terminal", "NonTerminal", "Stack", "Choice",
     "HorizontalChoice", "OptionalSequence", "AlternatingSequence", "MultipleChoice",
     "Skip", "OneOrMore", "ZeroOrMore", "Optional", "Comment", "Sequence", "Group"}

\* railroad.Diagram.__init__(*items, type=type): self.items[0] of no items
\* at all raises IndexError
RailroadDiagram(items, type) ==
    LET first == IF items # <<>> /\ items[1].kind # "Start"
                 THEN <<[kind |-> "Start", type |-> type]>> ELSE <<>>
        last == IF items # <<>> /\ items[Len(items)].kind # "End"
                THEN <<[kind |-> "End", type |-> type]>> ELSE <<>>
    IN  IF first \o items \o last = <<>> THEN Err("IndexError")
        ELSE [kind |-> "Diagram", type |-> type, items |-> first \o items \o last]

\* railroad.Sequence.__init__(*items)
RailroadSequence(items) ==
    IF items = <<>> THEN Err("IndexError")
    ELSE [kind |-> "Sequence", items |-> items]

\* railroad.Terminal.__init__(text)
RailroadTerminal(string) == [kind |-> "Terminal", text |-> string]

\* the first exception among the outcomes, in the order they are made
FirstErr(outcomes) ==
    outcomes[CHOOSE i \in 1..Len(outcomes) :
                /\ IsErr(outcomes[i])
                /\ \A j \in 1..(i - 1) : ~IsErr(outcomes[j])]

RECURSIVE RailroadFromDict(_, _)
\* railroad.DiagramItem.from_dict(data, parameters)
RailroadFromDict(d, parameters) ==
    IF "element" \notin DOMAIN d THEN NoneValue
    ELSE IF d.element \notin RailroadKinds THEN Err("RRException")
    ELSE IF "items" \in DOMAIN d
    THEN LET children == [i \in 1..Len(d.items) |->
                             RailroadFromDict(d.items[i], parameters)]
         IN  IF \E i \in 1..Len(children) : IsErr(children[i]) THEN FirstErr(children)
             ELSE IF d.element = "Diagram"
             THEN RailroadDiagram(children, parameters["type"])
             ELSE IF d.element = "Sequence" THEN RailroadSequence(children)
             ELSE IF "default" \in DOMAIN d
             THEN [kind |-> d.element, default |-> d.default, items |-> children]
             ELSE [kind |-> d.element, items |-> children]
    ELSE IF "text" \in DOMAIN d THEN [kind |-> d.element, text |-> d.text]
    ELSE [kind |-> d.element]

\* parser.parse_json(string, properties), doc being json.loads(string)
parse_json(doc, properties) ==
    IF "element" \notin DOMAIN doc THEN Err("ParseException")
    ELSE IF doc.element # "Diagram"
    THEN RailroadFromDict([element |-> DiagramClass, items |-> <<doc>>], properties)
    ELSE RailroadFromDict(doc, properties)

\* A line of the DSL is a number of tabs and a body. The bodies tried, and
\* which of the regular expressions of parse match them:
\* rf"\s*({block_names})\W"
IsBlock(body) == body \in {"Sequence:", "Sequence foo"}
\* r"\s*(\w+)\s*:\s*(.*)"
BlockGrammar(body) == body \in {"Sequence:", "Terminal: foo", "Foo: bar"}
\* rf"\s*({text_names})\W"
IsText(body) == body \in {"Terminal: foo", "Terminal foo"}
\* r"\s*(\w+)\s*(\"[\w\s/:.-]+\"|[\w\s]+)?:\s*(.*)"
TextGrammar(body) == body \in {"Sequence:", "Terminal: foo", "Foo: bar"}

\* the indent parse gives each line: the tabs left once those of the first
\* line are taken off, counted in units of indent_text, the leading tabs of
\* the first line that has any left
Indents(lines) ==
    LET left == [i \in 1..Len(lines) |-> lines[i].tabs - lines[1].tabs]
        indented == {i \in 1..Len(lines) : left[i] > 0}
        indent_text == IF indented = {} THEN 1
                       ELSE left[CHOOSE i \in indented : \A j \in indented : i <= j]
    IN  [i \in 1..Len(lines) |-> left[i] \div indent_text]

RECURSIVE DslScan(_, _, _, _)
\* the loop of parse that turns the lines into a tree, from line i on
\* (counted from 1): the first report it prints, or none
DslScan(lines, ind, i, last_indent) ==
    IF i > Len(lines) THEN [about |-> "nothing"]
    ELSE IF ind[i] > last_indent + 1
    THEN [about |-> "jumps more than 1 indent level", line |-> i]
    ELSE IF IsBlock(lines[i].body)
    THEN IF ~BlockGrammar(lines[i].body)
         THEN [about |-> "doesn't match the grammar", line |-> i]
         ELSE DslScan(lines, ind, i + 1, ind[i])
    ELSE IF IsText(lines[i].body)
    THEN IF ~TextGrammar(lines[i].body)
         THEN [about |-> "doesn't match the grammar", line |-> i]
         ELSE DslScan(lines, ind, i + 1, ind[i])
    ELSE [about |-> "doesn't contain a valid command", line |-> i]

\* command.children of the command of line p, the lines that
\* active_commands puts under it; p = 0 is the Diagram command of the root
Kids(ind, p) ==
    LET level(q) == IF q = 0 THEN -1 ELSE ind[q]
        Under(q) == /\ q > p
                    /\ level(q) = level(p) + 1
                    /\ \A r \in (p + 1)..(q - 1) : level(r) > level(p)
    IN  SelectSeq([q \in 1..Len(ind) |-> q], Under)

RECURSIVE Gather(_, _, _)
\* [_f for _f in [create_diagram(child) for child in command.children]
\* if _f]: the nodes made, what was printed, up to the first exception
Gather(made, k, acc) ==
    IF k > Len(made) THEN acc
    ELSE IF IsErr(made[k].val)
    THEN [ok |-> FALSE, val |-> made[k].val, printed |-> acc.printed \o made[k].printed]
    ELSE Gather(made, k + 1,
                [ok |-> TRUE,
                 val |-> IF made[k].val = NoneValue THEN acc.val
                         ELSE Append(acc.val, made[k].val),
                 printed |-> acc.printed \o made[k].printed])

\* the node made of the children gathered
Made(children, node) ==
    IF ~children.ok THEN [val |-> children.val, printed |-> children.printed]
    ELSE [val |-> node, printed |-> children.printed]

RECURSIVE create_diagram(_, _, _, _)
\* parser.create_diagram(command, diagram_type), for the Diagram command
\* of the root, Sequence and Terminal
create_diagram(lines, ind, p, diagram_type) ==
    LET kids == Kids(ind, p)
        children == Gather([k \in 1..Len(kids) |->
                               create_diagram(lines, ind, kids[k], "simple")],
                           1, [ok |-> TRUE, val |-> <<>>, printed |-> <<>>])
    IN  IF p = 0
        THEN Made(children,
                  IF children.ok THEN RailroadDiagram(children.val, diagram_type)
                  ELSE NoneValue)
        ELSE IF IsText(lines[p].body)
        THEN IF kids # <<>>
             THEN [val |-> NoneValue,
                   printed |-> <<[about |-> "Terminal commands cannot have children",
                                  line |-> p]>>]
             ELSE [val |-> RailroadTerminal("foo"), printed |-> <<>>]
        ELSE IF kids = <<>>
        THEN [val |-> NoneValue,
              printed |-> <<[about |-> "Sequence commands need at least one child",
                             line |-> p]>>]
        ELSE Made(children,
                  IF children.ok THEN RailroadSequence(children.val) ELSE NoneValue)

\* parser.parse(string, simple), lines being string.splitlines(): what it
\* returns or raises, and what it prints
parse(lines, simple) ==
    IF lines = <<>> THEN [val |-> Err("IndexError"), printed |-> <<>>]
    ELSE IF \E i \in 1..Len(lines) : lines[i].tabs < lines[1].tabs
    THEN [val |-> RailroadDiagram(<<>>, "simple"),
          printed |-> <<[about |-> "is indented less than the first line",
                         line |-> (CHOOSE i \in 1..Len(lines) :
                                      /\ lines[i].tabs < lines[1].tabs
                                      /\ \A j \in 1..(i - 1) :
                                             lines[j].tabs >= lines[1].tabs) - 1]>>]
    ELSE LET report == DslScan(lines, Indents(lines), 1, 0)
         IN  IF report.about = "nothing"
             THEN create_diagram(lines, Indents(lines), 0,
                                 IF simple THEN "simple" ELSE "complex")
             ELSE IF report.about = "doesn't contain a valid command"
             THEN [val |-> NoneValue, printed |-> <<report>>]
             ELSE [val |-> RailroadDiagram(<<>>, "simple"), printed |-> <<report>>]

\* the documents handed to parse_json: the Choice of the command help, a
\* Terminal, a Sequence, the same under a Diagram, a root without
\* "element", a root of no known kind
HelpChoice ==
    [element |-> "Choice", default |-> 0,
     items |-> <<[element |-> "Terminal", text |-> "foo"],
                 [element |-> "Terminal", text |-> "bar", href |-> "raw"]>>]
JsonRoots ==
    {HelpChoice, [element |-> "Terminal", text |-> "foo"], [element |-> "Skip"],
     [element |-> "Sequence", items |-> <<[element |-> "Terminal", text |-> "foo"]>>]}
JsonDocs ==
    JsonRoots
    \cup {[element |-> "Diagram", items |-> <<root>>] : root \in JsonRoots}
    \cup {[items |-> <<HelpChoice>>], [element |-> "Foo"]}
Properties == {[standalone |-> FALSE, type |-> "complex"],
               [standalone |-> TRUE, type |-> "simple"]}

\* the texts handed to parse
MaxLines == 3
MaxTabs == 3
Bodies == {"Sequence:", "Sequence foo", "Terminal: foo", "Terminal foo", "Foo: bar"}
DslTexts == UNION {[1..n -> [tabs : 0..MaxTabs, body : Bodies]] : n \in 0..MaxLines}

\* parse_json(string, properties), once in a run
ParseJson ==
    /\ parsed = NoParse
    /\ \E doc \in JsonDocs, properties \in Properties :
          parsed' = [call |-> "parse_json", doc |-> doc, properties |-> properties,
                     printed |-> <<>>, result |-> parse_json(doc, properties)]
    /\ UNCHANGED <<FORMATTING, parts, tree, data, data0, given, other, otherGiven,
                   rendered, written, padding, laid, grid>>

\* parse(string, simple), once in a run
ParseDsl ==
    /\ parsed = NoParse
    /\ \E string \in DslTexts, simple \in BOOLEAN :
          \E r \in {parse(string, simple)} :
              parsed' = [call |-> "parse", string |-> string, simple |-> simple,
                         printed |-> r.printed, result |-> r.val]
    /\ UNCHANGED <<FORMATTING, parts, tree, data, data0, given, other, otherGiven,
                   rendered, written, padding, laid, grid>>

NextParser ==
    \/ ParseJson
    \/ ParseDsl

SpecParser == Init /\ [][NextParser]_vars

\* C1: the layout pass runs exactly once over any sequence of write_svg and
\* write_standalone calls on a freshly built Diagram: every writer call
\* leaves formatted true and exactly one geometry group under the root, and
\* a call that finds the tree formatted leaves it as it was.
C1_FormatOnce ==
    [][(WriteSvg \/ Standalone) =>
          /\ tree'.formatted
          /\ Len(tree'.children) = 1
          /\ tree'.children[1].name = "g"
          /\ (tree.formatted => tree' = tree /\ ~written'.ranFormat)
          /\ (~tree.formatted => written'.ranFormat)]_vars

\* a writer call that came after the first one and skipped format()
C1_Witness ==
    /\ IsDiagram(tree)
    /\ written.by \in {"write_svg", "write_standalone"}
    /\ ~written.ranFormat
    /\ tree.formatted
    /\ Len(tree.children) = 1

\* C2: write_standalone on an already formatted Diagram leaves the root's
\* child list and attribute map as they were, and write_svg writes the same
\* document after the call as before it.
C2_StandaloneRestores ==
    [][(Standalone /\ tree.formatted) =>
          /\ tree'.children = tree.children
          /\ tree'.attrs = tree.attrs
          /\ write_svg(tree').out = write_svg(tree).out]_vars

\* write_standalone has written a document with the style element and the
\* namespaces for a formatted Diagram, and the root holds neither
C2_Witness ==
    /\ IsDiagram(tree)
    /\ written.by = "write_standalone"
    /\ ~written.ranFormat
    /\ written.out.children[Len(written.out.children)].name = "style"
    /\ "xmlns" \in DOMAIN written.out.attrs
    /\ "xmlns" \notin DOMAIN tree.attrs
    /\ \A i \in 1..Len(tree.children) : tree.children[i].name = "g"

\* C4: up, height, down, width and needs_space of every node of a built
\* tree are left unchanged by format, write_svg, write_standalone,
\* write_text and text_diagram.
C4_MeasurementsFixed ==
    [][IsTree(tree) => Measure(tree') = Measure(tree)]_vars

\* a Diagram holding a composite has been formatted, written and rendered
C4_Witness ==
    /\ IsDiagram(tree)
    /\ tree.formatted
    /\ written.by = "write_standalone"
    /\ rendered.which = "tree"
    /\ \E n \in AllNodes(tree) : n.kind \in {"Sequence", "MultipleChoice"} /\ n.children # <<>>

----------------------------------------------------------------------------
(* Structural dictionaries: the schema, and the form to_dict writes *)

TextKinds == {"Terminal", "NonTerminal", "Comment", "Expression"}
ListKinds == {"Sequence", "Stack", "OptionalSequence", "HorizontalChoice"}
StartTypes == {"simple", "complex", "sql"}
Built == data0 # NoData

AllOf(P(_), items) == \A i \in 1..Len(items) : P(items[i])

RECURSIVE ValidDict(_)
\* d has the required fields of its kind, well-formed optional ones, and
\* valid children
ValidDict(d) ==
    /\ "element" \in DOMAIN d
    /\ LET e == d["element"]
           has(k) == k \in DOMAIN d
           items(min) == has("items") /\ Len(d["items"]) >= min /\ AllOf(ValidDict, d["items"])
           item == has("item") /\ ValidDict(d["item"])
       IN  CASE e \in TextKinds -> has("text")
             [] e = "Skip" -> TRUE
             [] e \in {"Start", "End"} -> has("type") => d["type"] \in StartTypes
             [] e = "Arrow" -> has("direction") => d["direction"] # None
             [] e \in ListKinds -> items(1)
             [] e = "AlternatingSequence" -> items(2) /\ Len(d["items"]) = 2
             [] e = "Choice" ->
                   /\ items(1)
                   /\ has("default") => 0 <= d["default"] /\ d["default"] < Len(d["items"])
             [] e = "MultipleChoice" ->
                   /\ items(1)
                   /\ has("type") /\ d["type"] \in {"any", "all"}
                   /\ has("default") => 0 <= d["default"] /\ d["default"] < Len(d["items"])
             [] e = "OneOrMore" ->
                   item /\ (has("repeat") => d["repeat"] = NoneValue \/ ValidDict(d["repeat"]))
             [] e = "Optional" -> item
             [] e = "ZeroOrMore" ->
                   item /\ (has("repeat") => d["repeat"] = NoneValue \/ ValidDict(d["repeat"]))
             [] e = "Group" ->
                   item /\ (has("label") =>
                               \/ d["label"] = NoneValue
                               \/ IsStr(d["label"])
                               \/ ValidDict(d["label"]))
             [] e = "Diagram" -> items(0)
             [] OTHER -> FALSE

RECURSIVE Canonical(_)
\* d is valid and in the form to_dict writes: every field of its kind
\* spelled out, no pseudo-kind, no string label, and no list that the
\* constructors would turn into another one
Canonical(d) ==
    /\ ValidDict(d)
    /\ LET e == d["element"]
           keys(ks) == DOMAIN d = {"element"} \cup ks
           items(min) == Len(d["items"]) >= min /\ AllOf(Canonical, d["items"])
       IN  CASE e \in TextKinds -> keys({"text", "href", "title", "cls"})
             [] e = "Skip" -> keys({})
             [] e = "Start" -> keys({"type", "label"})
             [] e = "End" -> keys({"type"})
             [] e = "Arrow" -> keys({"direction"})
             [] e \in {"Sequence", "Stack", "AlternatingSequence"} ->
                   keys({"items"}) /\ items(1)
             [] e \in {"HorizontalChoice", "OptionalSequence"} -> keys({"items"}) /\ items(2)
             [] e = "Choice" -> keys({"default", "items"}) /\ items(1)
             [] e = "MultipleChoice" -> keys({"default", "type", "items"}) /\ items(1)
             [] e = "OneOrMore" ->
                   /\ keys({"item", "repeat"})
                   /\ Canonical(d["item"])
                   /\ d["repeat"] # NoneValue /\ Canonical(d["repeat"])
             [] e = "Group" ->
                   /\ keys({"item", "label"})
                   /\ Canonical(d["item"])
                   /\ d["label"] = NoneValue \/ (~IsStr(d["label"]) /\ Canonical(d["label"]))
             [] e = "Diagram" ->
                   /\ keys({"items"}) /\ items(2)
                   /\ d["items"][1]["element"] = "Start"
                   /\ d["items"][Len(d["items"])]["element"] = "End"
             [] OTHER -> FALSE

----------------------------------------------------------------------------
(* Properties of from_dict and to_dict *)

\* C5 as stated: to_dict(from_dict(d)) = d for every valid dictionary d.
C5_RoundTrip ==
    (Built /\ ValidDict(data0)) => (IsTree(tree) /\ to_dict(tree) = data)

\* C5: to_dict(from_dict(d)) = d for every valid dictionary d in the form
\* to_dict writes, and from_dict leaves such a d as it was.
C5_RoundTripCanonical ==
    (Built /\ Canonical(data0)) =>
        (IsTree(tree) /\ to_dict(tree) = data0 /\ data = data0)

\* a canonical Diagram dictionary with a Choice nested in it has been built
C5_Witness ==
    /\ Built /\ Canonical(data0)
    /\ IsDiagram(tree)
    /\ \E n \in AllNodes(tree) : n.kind = "Choice"
    /\ \E n \in AllNodes(tree) : n.kind = "Start"

\* C6 as stated: every Choice node of a built tree has
\* 0 <= default < len(items).
C6_ChoiceDefaultInRange ==
    IsTree(tree) =>
        \A n \in AllNodes(tree) :
            n.kind = "Choice" => (0 <= n.default /\ n.default < Len(n.items))

\* C7: every MultipleChoice node of a built tree has type "any" or "all"
\* and 0 <= default < len(items).
C7_MultipleChoiceWellFormed ==
    IsTree(tree) =>
        \A n \in AllNodes(tree) :
            n.kind = "MultipleChoice" =>
                /\ n.type \in {"any", "all"}
                /\ 0 <= n.default /\ n.default < Len(n.items)

\* a MultipleChoice over several items has been built
C7_Witness ==
    /\ IsTree(tree)
    /\ \E n \in AllNodes(tree) :
          n.kind = "MultipleChoice" /\ Len(n.items) >= 2 /\ n.type = "all" /\ n.default >= 1

\* d asks for a Choice whose default is out of range, or for a MultipleChoice
\* whose type is neither "any" nor "all", over valid children
OutOfRange(d) ==
    /\ DOMAIN d = {"element", "default", "items"}
    /\ d["element"] = "Choice"
    /\ d["items"] # <<>> /\ AllOf(ValidDict, d["items"])
    /\ (d["default"] < 0 \/ d["default"] >= Len(d["items"]))
BadType(d) ==
    /\ DOMAIN d = {"element", "default", "type", "items"}
    /\ d["element"] = "MultipleChoice"
    /\ d["items"] # <<>> /\ AllOf(ValidDict, d["items"])
    /\ 0 <= d["default"] /\ d["default"] < Len(d["items"])
    /\ d["type"] \notin {"any", "all"}

\* the exception classes that report a value or validation error
ValueErrors == {"ValueError", "ParseException"}

\* C8 as stated: an out-of-range Choice default, or a MultipleChoice type
\* other than "any" and "all", is reported as a value/validation error and
\* yields no node.
C8_InvalidIsValueError ==
    (Built /\ (OutOfRange(data0) \/ BadType(data0))) =>
        (IsErr(tree) /\ tree.err \in ValueErrors)

\* the children of the dictionary under construction, as from_dict builds them
ItemsOf(d) == FromDictItems(d["items"], given, PartsFor(NoParameters))
ItemsBuilt(d) ==
    /\ "items" \in DOMAIN d
    /\ ItemsOf(d).ok
    /\ \A i \in 1..Len(ItemsOf(d).val) : IsNode(ItemsOf(d).val[i])

\* C9: building an AlternatingSequence from other than 2 items raises
\* ParseException and yields no node; from exactly 2 items it yields a node
\* that holds the two in the given order; no AlternatingSequence node has
\* another number of items.
C9_AlternatingSequenceArity ==
    /\ (Built /\ "element" \in DOMAIN data0 /\ data0["element"] = "AlternatingSequence"
          /\ ItemsBuilt(data0)) =>
            IF Len(data0["items"]) = 2
            THEN /\ IsTree(tree)
                 /\ tree.kind = "AlternatingSequence"
                 /\ tree.items = ItemsOf(data0).val
            ELSE tree = Err("ParseException")
    /\ IsTree(tree) =>
            \A n \in AllNodes(tree) :
                n.kind = "AlternatingSequence" => Len(n.items) = 2

\* an AlternatingSequence of two different items has been built
C9_Witness ==
    /\ IsTree(tree)
    /\ tree.kind = "AlternatingSequence"
    /\ tree.items[1].kind = "Terminal"
    /\ tree.items[2].kind = "Skip"
    /\ data0["items"][1]["element"] = "Terminal"

\* d asks for a composite that needs a child, and gives none
EmptyComposite(d) ==
    /\ "element" \in DOMAIN d
    /\ d["element"] \in ListKinds \cup {"Choice", "MultipleChoice"}
    /\ "items" \in DOMAIN d /\ d["items"] = <<>>
    /\ d["element"] = "MultipleChoice" => {"default", "type"} \subseteq DOMAIN d

\* C10 as stated: an empty child list is reported as a value error.
C10_EmptyIsValueError ==
    (Built /\ EmptyComposite(data0)) => (IsErr(tree) /\ tree.err \in ValueErrors)

\* what the constructors do with an empty child list: no node, and
\* IndexError from Sequence, HorizontalChoice and OptionalSequence,
\* ValueError from Stack and from a Choice with a negative default,
\* AssertionError from MultipleChoice and from a Choice with another default
EmptyRaises ==
    (Built /\ EmptyComposite(data0)) =>
        /\ IsErr(tree)
        /\ tree.err =
             CASE data0["element"] \in {"Sequence", "HorizontalChoice", "OptionalSequence"} ->
                    "IndexError"
               [] data0["element"] = "Stack" -> "ValueError"
               [] data0["element"] = "Choice" ->
                    IF "default" \in DOMAIN data0 /\ data0["default"] < 0
                    THEN "ValueError" ELSE "AssertionError"
               [] data0["element"] = "MultipleChoice" -> "AssertionError"

\* an empty Sequence has been asked for, and refused
C10_Witness ==
    /\ Built /\ EmptyComposite(data0)
    /\ data0["element"] = "Sequence"
    /\ tree = Err("IndexError")

----------------------------------------------------------------------------
(* Two trees in one process: built, formatted and rendered in any order *)

\* from_dict alone
SpecBuild == Init /\ [][Build]_vars

PairDicts ==
    {[element |-> "Terminal", text |-> "foo"],
     Container("Sequence", <<TermDict, SkipDict>>),
     Container("Diagram", <<TermDict>>)}

BuildFirst == \E d \in PairDicts, p \in ParameterSets : BuildFrom(d, p)

\* other = DiagramItem.from_dict(d, p)
BuildOther ==
    /\ other = NoTree
    /\ \E d \in PairDicts, p \in ParameterSets :
          \E r \in {from_dict(d, p, parts)} :
             /\ other' = r.val
             /\ otherGiven' = p
             /\ parts' = r.parts
    /\ UNCHANGED <<FORMATTING, tree, data, data0, given, rendered, written, padding, laid,
                   grid, parsed>>

\* other.format()
FormatOther ==
    /\ IsDiagram(other)
    /\ Len(other.children) < MaxChildren
    /\ other' = DiagramFormat(other, <<>>)
    /\ parts' = PartsFor(NoParameters)
    /\ UNCHANGED <<FORMATTING, tree, data, data0, given, otherGiven, rendered, written, padding, laid,
                   grid, parsed>>

\* other.text_diagram()
TextDiagramOther ==
    /\ IsTree(other)
    /\ rendered' = [which |-> "other", glyph |-> parts]
    /\ UNCHANGED <<FORMATTING, parts, tree, data, data0, given, other, otherGiven, written,
                 padding, laid,
                   grid, parsed>>

NextPair ==
    \/ BuildFirst
    \/ BuildOther
    \/ Format
    \/ FormatOther
    \/ TextDiagram
    \/ WriteText
    \/ TextDiagramOther

SpecPair == Init /\ [][NextPair]_vars

\* the formatting option a tree was built with
OwnFormatting(parameters) == MergeParameters(parameters)["formatting"]

\* C3 as stated: with two trees whose formatting options differ, a text
\* rendering of either reads the glyph set its own option selects.
C3_OwnGlyphs ==
    (IsTree(tree) /\ IsTree(other) /\ OwnFormatting(given) # OwnFormatting(otherGiven)) =>
        /\ rendered.which = "tree" => rendered.glyph = OwnFormatting(given)
        /\ rendered.which = "other" => rendered.glyph = OwnFormatting(otherGiven)

----------------------------------------------------------------------------
(* Dictionaries from_dict refuses *)

KnownKinds ==
    TextKinds \cup ListKinds
    \cup {"Diagram", "Start", "End", "Arrow", "Skip", "Choice", "MultipleChoice",
          "AlternatingSequence", "OneOrMore", "ZeroOrMore", "Optional", "Group"}

IsUnknown(d) == "element" \in DOMAIN d /\ d["element"] \notin KnownKinds

\* k is a field of d that from_dict hands to from_dict
IsChild(d, k) ==
    /\ "element" \in DOMAIN d
    /\ \/ k = "item" /\ d["element"] \in {"OneOrMore", "ZeroOrMore", "Optional", "Group"}
       \/ k = "repeat" /\ d["element"] \in {"OneOrMore", "ZeroOrMore"}
       \/ k = "label" /\ d["element"] = "Group"

\* k is the field of d whose elements from_dict hands to from_dict
IsChildren(d, k) ==
    /\ "element" \in DOMAIN d
    /\ k = "items"
    /\ d["element"] \in ListKinds \cup {"Diagram", "Choice", "MultipleChoice",
                                       "AlternatingSequence"}

RECURSIVE Mend(_)
\* d with a Skip in place of every sub-dictionary of an unknown kind
Mend(d) ==
    IF IsUnknown(d) THEN SkipDict
    ELSE [k \in DOMAIN d |->
            IF IsChildren(d, k) THEN [i \in 1..Len(d[k]) |-> Mend(d[k][i])]
            ELSE IF IsChild(d, k) THEN Mend(d[k])
            ELSE d[k]]

RECURSIVE Unknowns(_)
\* the element values of the sub-dictionaries of an unknown kind
Unknowns(d) ==
    IF IsUnknown(d) THEN {d["element"]}
    ELSE UNION {IF IsChildren(d, k) THEN UNION {Unknowns(d[k][i]) : i \in 1..Len(d[k])}
                ELSE IF IsChild(d, k) THEN Unknowns(d[k])
                ELSE {} : k \in DOMAIN d}

\* the only fault of d is an unknown kind: with a Skip in its place d builds
OnlyUnknown(d, p) ==
    /\ Unknowns(d) # {}
    /\ from_dict(Mend(d), p, PartsFor(NoParameters)).ok
    /\ from_dict(Mend(d), p, PartsFor(NoParameters)).val # NoneValue

\* C11: from_dict on a dictionary with an element of an unknown kind, at
\* the root or nested, raises ParseException with a message that contains
\* the offending value, and returns no tree.
C11_UnknownElementNamed ==
    (Built /\ OnlyUnknown(data0, given)) =>
        /\ IsErr(tree)
        /\ tree.err = "ParseException"
        /\ "msg" \in DOMAIN tree
        /\ \E i \in 1..Len(tree.msg) : tree.msg[i] \in Unknowns(data0)

\* an unknown kind two levels down has been refused by name
C11_Witness ==
    /\ Built /\ OnlyUnknown(data0, given)
    /\ ~IsUnknown(data0)
    /\ "items" \in DOMAIN data0
    /\ \E i \in 1..Len(data0["items"]) :
          /\ ~IsUnknown(data0["items"][i])
          /\ Unknowns(data0["items"][i]) = {"Bogus"}
    /\ IsErr(tree) /\ tree.msg = <<"Unknown element: ", "Bogus", ".">>

\* d itself lacks a field its kind requires
Lacks(d) ==
    \/ "element" \notin DOMAIN d
    \/ d["element"] \in TextKinds /\ "text" \notin DOMAIN d
    \/ IsChildren(d, "items") /\ "items" \notin DOMAIN d
    \/ IsChild(d, "item") /\ "item" \notin DOMAIN d
    \/ d["element"] = "MultipleChoice" /\ ~({"default", "type"} \subseteq DOMAIN d)

RECURSIVE LacksSomewhere(_)
\* d or a dictionary nested in it lacks a field its kind requires
LacksSomewhere(d) ==
    \/ Lacks(d)
    \/ \E k \in DOMAIN d :
          \/ IsChildren(d, k) /\ \E i \in 1..Len(d[k]) : LacksSomewhere(d[k][i])
          \/ /\ IsChild(d, k)
             /\ d[k] # NoneValue /\ ~IsStr(d[k])
             /\ LacksSomewhere(d[k])

\* C12 as stated: from_dict on a dictionary that lacks a required field,
\* at the root or nested, raises a parse or validation error: it returns
\* neither None nor a tree.
C12_MissingFieldIsError ==
    (Built /\ LacksSomewhere(data0)) => (IsErr(tree) /\ tree.err \in ValueErrors)

\* a dictionary without "element" has been handed over, and None came back
C12_Witness ==
    /\ Built /\ "element" \notin DOMAIN data0
    /\ tree = NoneValue

\* a Group whose label dictionary has no "element" has been built without
\* its label
C12_LabelDropped ==
    /\ Built /\ "element" \in DOMAIN data0 /\ data0["element"] = "Group"
    /\ "label" \in DOMAIN data0 /\ Lacks(data0["label"])
    /\ IsTree(tree) /\ tree.kind = "Group" /\ tree.label = NoneValue

----------------------------------------------------------------------------
(* The configuration of the nodes from_dict builds *)

\* C13 as stated: every node of the tree from_dict(data, parameters) builds
\* carries the parameters supplied, over the defaults.
C13_ParametersEverywhere ==
    (Built /\ IsTree(tree)) =>
        \A n \in AllNodes(tree) : n.parameters = MergeParameters(given)

\* a Diagram has been built with an arc radius of 12, and its root and the
\* Start put before its items have the default one
C13_Witness ==
    /\ Built /\ IsDiagram(tree)
    /\ given = CustomParameters
    /\ data0["items"][1]["element"] # "Start"
    /\ tree.parameters["AR"] = AR
    /\ tree.items[1].kind = "Start" /\ tree.items[1].parameters["AR"] = AR
    /\ tree.items[2].parameters["AR"] = CustomParameters["AR"]

----------------------------------------------------------------------------
(* Measurements *)

\* C14 as stated: up, height, down and width of every node built are
\* non-negative.
C14_NonNegative ==
    (Built /\ IsTree(tree)) =>
        \A n \in AllNodes(tree) :
            n.up >= 0 /\ n.height >= 0 /\ n.down >= 0 /\ n.width >= 0

\* a MultipleChoice whose default item is its last one, a Stack, has been
\* built, and its down is negative
C14_Witness ==
    /\ Built /\ IsTree(tree) /\ tree.kind = "MultipleChoice"
    /\ tree.default = Len(tree.items) - 1
    /\ tree.items[Len(tree.items)].kind = "Stack"
    /\ \A i \in 1..Len(tree.items) :
          LET n == tree.items[i]
          IN  n.up >= 0 /\ n.height >= 0 /\ n.down >= 0 /\ n.width >= 0
    /\ tree.down < 0

\* the dictionary built asks for a HorizontalChoice or an OptionalSequence of
\* one item, and a tree came out
Degenerate ==
    /\ Built /\ IsTree(tree)
    /\ "element" \in DOMAIN data0
    /\ data0.element \in {"HorizontalChoice", "OptionalSequence"}
    /\ Len(data0.items) = 1

\* C15: a HorizontalChoice or an OptionalSequence of one item is the Sequence
\* of that item: the node is the one the Sequence constructor builds from the
\* item, it serialises as {"element": "Sequence", "items": [item]}, and its
\* width, up, height and down are those of that Sequence.
C15_OneItemIsSequence ==
    Degenerate =>
        LET seq == Sequence(<<tree.items[1]>>, given)
        IN  /\ tree.kind = "Sequence"
            /\ Len(tree.items) = 1
            /\ seq.ok /\ tree = seq.val
            /\ to_dict(tree) = [element |-> "Sequence",
                                items |-> <<to_dict(tree.items[1])>>]
            /\ <<tree.width, tree.up, tree.height, tree.down>>
                   = <<seq.val.width, seq.val.up, seq.val.height, seq.val.down>>

\* both kinds have been built from one Terminal
C15_Witness ==
    /\ Degenerate /\ data0.element = "HorizontalChoice"
    /\ tree.kind = "Sequence" /\ tree.items[1].kind = "Terminal"

C15_WitnessOptionalSequence ==
    /\ Degenerate /\ data0.element = "OptionalSequence"
    /\ tree.kind = "Sequence" /\ tree.items[1].kind = "Terminal"

\* a Diagram of one Terminal, built with the default configuration, has been
\* written by write_svg, which formatted it with the default padding
OneTerminalWritten ==
    /\ Built /\ IsDiagram(tree) /\ given = NoParameters
    /\ data0.element = "Diagram" /\ Len(data0.items) = 1
    /\ data0.items[1].element = "Terminal"
    /\ written # NoWrite /\ written.by = "write_svg" /\ written.ranFormat

\* the parts of the width the specification names: the text, the two Start
\* and End markers and the two default paddings
TextWidth == Len(data0.items[1].text) * DefaultParameters["char_width"]
MarkersWidth == tree.items[1].width + tree.items[Len(tree.items)].width
PaddingWidth == PaddingLeft(<<>>) + PaddingRight(<<>>)

\* C16 as stated: the width attribute of the root is
\* len(t) * charWidth + 20 + 2 * startWidth + 2 * defaultPadding.
C16_WidthAsStated ==
    OneTerminalWritten =>
        written.out.attrs.width = TextWidth + 20 + MarkersWidth + PaddingWidth

\* C16: the width attribute of the root is
\* len(t) * charWidth + 20 + 20 + 2 * startWidth + 2 * defaultPadding: the
\* second 20 is the two gaps of 10 drawn around the Terminal, which has
\* needs_space.
C16_WidthWithGaps ==
    OneTerminalWritten =>
        /\ tree.items[2].width = TextWidth + 20
        /\ tree.items[2].needs_space
        /\ written.out.attrs.width
              = TextWidth + 20 + 20 + MarkersWidth + PaddingWidth

\* the Diagram of Terminal("foo") has been written with a width of 144
C16_Witness ==
    /\ OneTerminalWritten
    /\ data0.items[1].text = "foo"
    /\ tree.items[1].kind = "Start" /\ tree.items[1].width = 20
    /\ tree.items[3].kind = "End" /\ tree.items[3].width = 20
    /\ written.out.attrs.width = 144

\* the root has been formatted, by format() or by a writer
Formatted == Built /\ IsDiagram(tree) /\ tree.formatted

\* the root as its constructor left it
Constructed == from_dict(data0, given, PartsFor(NoParameters)).val

\* C17: after format with the four paddings, the width attribute is
\* width + left + right, the height attribute is
\* up + height + down + top + bottom, over the measurements the constructor
\* took, and the viewBox is 0 0 <width attribute> <height attribute>.
C17_FormatAttributes ==
    Formatted =>
        LET c == Constructed
            top == PaddingTop(padding)
            right == PaddingRight(padding)
            bottom == PaddingBottom(padding)
            left == PaddingLeft(padding)
        IN  /\ <<tree.width, tree.up, tree.height, tree.down>>
                  = <<c.width, c.up, c.height, c.down>>
            /\ tree.attrs.width = c.width + left + right
            /\ tree.attrs.height = c.up + c.height + c.down + top + bottom
            /\ tree.attrs.viewBox = <<0, 0, tree.attrs.width, tree.attrs.height>>

\* a Diagram has been formatted with four different paddings
C17_Witness ==
    /\ Formatted
    /\ DOMAIN padding = {"padding_top", "padding_right", "padding_bottom", "padding_left"}
    /\ Cardinality({padding[k] : k \in DOMAIN padding}) = 4
    /\ tree.attrs.width = tree.width + padding.padding_left + padding.padding_right
    /\ tree.height > 0

\* the Sequence nodes of the tree built
Sequences ==
    IF Built /\ IsTree(tree) THEN {n \in AllNodes(tree) : n.kind = "Sequence"} ELSE {}

WidthsOf(items) == SumSeq([i \in 1..Len(items) |-> items[i].width])
EndsOf(items) ==
    (IF items[1].needs_space THEN 10 ELSE 0)
    + (IF items[Len(items)].needs_space THEN 10 ELSE 0)
\* the adjacent pairs of children of which either one has needs_space
SpacedPairs(items) ==
    {i \in 1..(Len(items) - 1) : items[i].needs_space \/ items[i + 1].needs_space}
\* the children that have needs_space
SpacedChildren(items) == {i \in 1..Len(items) : items[i].needs_space}

\* C18 as stated: the width of a Sequence is the sum of its children's widths
\* plus 20 per adjacent pair of children either of which has needs_space,
\* minus 10 if the first child has needs_space and minus 10 if the last has.
C18_WidthPerPair ==
    \A n \in Sequences :
        n.width = WidthsOf(n.items) + 20 * Cardinality(SpacedPairs(n.items))
                  - EndsOf(n.items)

\* C18: the width of a Sequence is the sum of its children's widths plus 20
\* per child that has needs_space, minus 10 if the first child has
\* needs_space and minus 10 if the last has.
C18_WidthPerChild ==
    \A n \in Sequences :
        n.width = WidthsOf(n.items) + 20 * Cardinality(SpacedChildren(n.items))
                  - EndsOf(n.items)

\* a Sequence of two Terminals has been built: 20 wider than its children,
\* where one pair less the two ends would leave nothing
C18_Witness ==
    /\ Built /\ IsTree(tree) /\ tree.kind = "Sequence" /\ Len(tree.items) = 2
    /\ tree.items[1].kind = "Terminal" /\ tree.items[2].kind = "Terminal"
    /\ tree.width = tree.items[1].width + tree.items[2].width + 20

\* the dictionary built asks for kind, with valid children, and a tree came out
BuiltAs(kind) ==
    /\ Built /\ IsTree(tree)
    /\ "element" \in DOMAIN data0 /\ data0.element = kind

\* the node from_dict builds from the field k of the dictionary built
ChildOf(k) == from_dict(data0[k], given, PartsFor(NoParameters)).val
SkipOf == Get(data0, "skip", FALSE)
HasRepeat == "repeat" \in DOMAIN data0 /\ data0.repeat # NoneValue

\* the Choice over [Skip, item] with default 0 when skip and 1 otherwise
IsOptionalOf(node, item, skip) ==
    /\ node.kind = "Choice"
    /\ Len(node.items) = 2
    /\ node.items[1] = Skip(given).val
    /\ node.items[2] = item
    /\ node.default = (IF skip THEN 0 ELSE 1)

\* C19: optional(item, skip) is the Choice whose items are [Skip, item] and
\* whose default is 0 when skip and 1 otherwise; zero_or_more(item, repeat,
\* skip) is optional(OneOrMore(item, repeat), skip), the repeat being a Skip
\* when none is given.
C19_OptionalAndZeroOrMore ==
    /\ BuiltAs("Optional") => IsOptionalOf(tree, ChildOf("item"), SkipOf)
    /\ BuiltAs("ZeroOrMore") =>
          LET repeat == IF HasRepeat THEN ChildOf("repeat") ELSE NoneValue
              more == OneOrMore(ChildOf("item"), repeat, given)
          IN  /\ more.ok
              /\ more.val.kind = "OneOrMore"
              /\ more.val.item = ChildOf("item")
              /\ more.val.rep.kind = (IF HasRepeat THEN repeat.kind ELSE "Skip")
              /\ IsOptionalOf(tree, more.val, SkipOf)
              /\ tree = optional(more.val, SkipOf, given).val

\* a ZeroOrMore without repeat, and not skipped, has been built
C19_Witness ==
    /\ BuiltAs("ZeroOrMore") /\ ~HasRepeat /\ ~SkipOf
    /\ tree.kind = "Choice" /\ tree.default = 1
    /\ tree.items[1].kind = "Skip"
    /\ tree.items[2].kind = "OneOrMore" /\ tree.items[2].rep.kind = "Skip"

\* an Optional that is skipped has been built
C19_WitnessOptional ==
    /\ BuiltAs("Optional") /\ SkipOf
    /\ tree.kind = "Choice" /\ tree.default = 0
    /\ tree.items[1].kind = "Skip" /\ tree.items[2].kind = "Terminal"

\* the nodes from_dict builds from the items of the dictionary built
GivenItems ==
    [i \in 1..Len(data0.items) |->
        from_dict(data0.items[i], given, PartsFor(NoParameters)).val]

\* C20: every Diagram built has a Start as its first item and an End as its
\* last; a Start (an End) is inserted exactly when the first (last) item
\* given is not one already, and the items given keep their order in between.
C20_StartAndEnd ==
    /\ (Built /\ IsTree(tree)) =>
          \A n \in AllNodes(tree) :
              n.kind = "Diagram" =>
                  /\ Len(n.items) >= 2
                  /\ n.items[1].kind = "Start"
                  /\ n.items[Len(n.items)].kind = "End"
    /\ BuiltAs("Diagram") =>
          LET its == GivenItems
              start == IF its[1].kind # "Start" THEN 1 ELSE 0
              end == IF its[Len(its)].kind # "End" THEN 1 ELSE 0
          IN  /\ Len(tree.items) = start + Len(its) + end
              /\ SubSeq(tree.items, start + 1, start + Len(its)) = its

\* a Diagram has been built from items that begin with an End and end with a
\* Start: both markers were inserted around them
C20_Witness ==
    /\ BuiltAs("Diagram")
    /\ Len(data0.items) = 2
    /\ data0.items[1].element = "End" /\ data0.items[2].element = "Start"
    /\ Len(tree.items) = 4
    /\ tree.items[1].kind = "Start" /\ tree.items[2].kind = "End"
    /\ tree.items[3].kind = "Start" /\ tree.items[4].kind = "End"

\* a Diagram has been built from items that begin with a Start and end with
\* an End: nothing was inserted
C20_WitnessNothingInserted ==
    /\ BuiltAs("Diagram")
    /\ data0.items[1].element = "Start"
    /\ data0.items[Len(data0.items)].element = "End"
    /\ Len(tree.items) = Len(data0.items)

----------------------------------------------------------------------------
(* The dictionary handed to from_dict *)

\* C30 as stated: from_dict leaves the dictionary it is handed, and every
\* dictionary nested in it, with the keys and values they had before the
\* call, whether it returns or raises.
C30_InputUnchanged == Built => data = data0

\* a Choice dictionary without default has been built into a tree, and the
\* call left a default of 0 in it
C30_Witness ==
    /\ Built /\ IsTree(tree)
    /\ data0.element = "Choice" /\ "default" \notin DOMAIN data0
    /\ "default" \in DOMAIN data /\ data.default = 0
    /\ \A k \in DOMAIN data0 : data[k] = data0[k]

\* the same inside a dictionary: the nested Choice got the key
C30_WitnessNested ==
    /\ Built /\ data # data0
    /\ "items" \in DOMAIN data0
    /\ \E i \in 1..Len(data0.items) :
          /\ "element" \in DOMAIN data0.items[i]
          /\ data0.items[i].element = "Choice"
          /\ "default" \notin DOMAIN data0.items[i]
          /\ data.items[i].default = 0

----------------------------------------------------------------------------
(* write_standalone with a write callback that raises *)

\* C29 as stated: when the write callback raises during write_standalone on
\* a formatted Diagram, the style element and the two namespace attributes
\* are removed all the same: the child list and the attribute map of the
\* root are what they were before the call.
C29_RaisingRestores ==
    [][(StandaloneRaising /\ tree.formatted) =>
          /\ tree'.children = tree.children
          /\ tree'.attrs = tree.attrs]_vars

\* write_standalone was interrupted on a formatted Diagram: the style
\* element is still the last child of the root and the namespaces are still
\* among its attributes
C29_Witness ==
    /\ IsDiagram(tree) /\ tree.formatted
    /\ written.by = "write_standalone" /\ "interrupted" \in DOMAIN written.out
    /\ ~written.ranFormat
    /\ Len(tree.children) = 2
    /\ tree.children[1].name = "g" /\ tree.children[2].name = "style"
    /\ "xmlns" \in DOMAIN tree.attrs /\ "xmlns_xlink" \in DOMAIN tree.attrs

----------------------------------------------------------------------------
(* Where format puts the branches, against the extent the constructor took *)

\* format(x, y, width) has been called on the root, a node of kind kind
Laid(kind) == "places" \in DOMAIN laid /\ IsTree(tree) /\ tree.kind = kind

\* the upper and the lower edge of a branch
Top(p) == p.y - p.item.up
Bottom(p) == p.y + p.item.height + p.item.down
Dist(a, b) == IF a >= b THEN a - b ELSE b - a

\* the branches of the Choice laid out: one per item, all within
\* y - up .. y + height + down, the first item's upper edge on y - up and
\* the last item's lower edge on y + height + down; consecutive branches
\* are the stored separator apart; and each connector, two arcs of radius
\* AR and a straight run of non-negative length, spans the distance from
\* the main line to the branch it serves
BranchesInside ==
    LET ps == laid.places
        y == laid.y
        n == Len(tree.items)
        AR2 == tree.parameters["AR"] * 2
        of(i) == CHOOSE k \in 1..Len(ps) : ps[k].index = i
    IN  /\ Len(ps) = n
        /\ \A i \in 0..(n - 1) : \E k \in 1..Len(ps) : ps[k].index = i
        /\ \A k \in 1..Len(ps) :
              /\ y - tree.up <= Top(ps[k])
              /\ Bottom(ps[k]) <= y + tree.height + tree.down
        /\ Top(ps[of(0)]) = y - tree.up
        /\ Bottom(ps[of(n - 1)]) = y + tree.height + tree.down
        /\ \A i \in 0..(n - 2) :
              Top(ps[of(i + 1)]) - Bottom(ps[of(i)]) = tree.separators[i + 1]
        /\ \A k \in 1..Len(ps) :
              ps[k].index # tree.default =>
                  /\ ps[k].enter >= 0 /\ ps[k].leave >= 0
                  /\ ps[k].enter + AR2 = Dist(ps[k].y, y)
                  /\ ps[k].leave + AR2
                        = Dist(ps[k].y + ps[k].item.height, y + tree.height)

\* C25 as stated: Choice.format places every branch inside the extent
\* measured at construction, the first branch's upper edge at y - up, the
\* last branch's lower edge at y + height + down, and every connector
\* spans the separation computed for its branches.
C25_BranchesInsideExtent == Laid("Choice") => BranchesInside

\* the same for the Choices whose default is the subscript of an item
InsideForIndexDefault == (Laid("Choice") /\ tree.default >= 0) => BranchesInside

\* a Choice of [Skip, Terminal] with default -1 has been laid out: the
\* Terminal was drawn twice, on the main line and below it
C25_Witness ==
    /\ Laid("Choice") /\ tree.default = -1 /\ Len(tree.items) = 2
    /\ tree.items[2].kind = "Terminal"
    /\ Len(laid.places) = 3
    /\ laid.places[1].index = -1 /\ laid.places[1].item.kind = "Terminal"
    /\ laid.places[3].index = 1 /\ laid.places[3].item.kind = "Terminal"
    /\ Top(laid.places[1]) < laid.y - tree.up

\* a Choice with branches above and below the main line has been laid out
\* within its extent
C25_WitnessInside ==
    /\ Laid("Choice") /\ tree.default = 1 /\ Len(tree.items) = 3
    /\ BranchesInside
    /\ \E k \in 1..3 : laid.places[k].y < laid.y
    /\ \E k \in 1..3 : laid.places[k].y > laid.y

\* C28 as stated: OneOrMore.format draws the repeat child inside the extent
\* measured at construction: its lower edge, its y position + its height +
\* its down, is at most y + height + down of the OneOrMore.
C28_RepeatInsideExtent ==
    Laid("OneOrMore") =>
        Bottom(laid.places[2]) <= laid.y + tree.height + tree.down

\* a OneOrMore of a Skip repeated over a Terminal has been laid out: the
\* Terminal is put 2 * AR below the main line and ends below the extent
C28_Witness ==
    /\ Laid("OneOrMore")
    /\ tree.item.kind = "Skip" /\ tree.rep.kind = "Terminal"
    /\ laid.places[2].index = 1
    /\ laid.places[2].y = laid.y + 2 * tree.parameters["AR"]
    /\ Bottom(laid.places[2]) = laid.y + tree.height + tree.down + 1

\* a OneOrMore of a Terminal repeated over a Comment has been laid out: the
\* Comment ends on the lower edge of the extent
C28_WitnessInside ==
    /\ Laid("OneOrMore")
    /\ tree.item.kind = "Terminal" /\ tree.rep.kind = "Comment"
    /\ Bottom(laid.places[2]) = laid.y + tree.height + tree.down

----------------------------------------------------------------------------
(* Properties of the text grids *)

WellFormed(td) ==
    /\ \A i \in 1..Len(td.lines) : Len(td.lines[i]) = Len(td.lines[1])
    /\ 0 <= td.entry /\ td.entry < Len(td.lines)
    /\ 0 <= td.exit /\ td.exit < Len(td.lines)

\* a call on the grids has returned a TextDiagram
Returned(op) == grid.op = op /\ ~IsErr(grid.result)

\* C21 as stated: every TextDiagram returned by text_diagram(), append_right,
\* append_below, center, expand and alter on well-formed inputs is well
\* formed: its lines have one length, and entry and exit are rows it has.
C21_WellFormed ==
    \A op \in {"text_diagram", "append_right", "append_below", "center", "expand",
                "alter"} :
        Returned(op) => WellFormed(grid.result)

\* what holds of the calls other than alter
C21_WellFormedButAlter ==
    \A op \in {"text_diagram", "append_right", "append_below", "center", "expand"} :
        Returned(op) => WellFormed(grid.result)

\* alter has replaced the lines of a well-formed grid by fewer, rectangular
\* lines, and has returned a grid whose entry is one past its last row
C21_Witness ==
    /\ Returned("alter")
    /\ WellFormed(grid.self)
    /\ grid.entry = <<>> /\ grid.exit = <<>>
    /\ grid.lines = <<Lines(Cells("c", 1), 1)>>
    /\ grid.result.entry = Len(grid.result.lines)

\* the part of a line from column a to column b, counted from 1
Part(line, a, b) == SubSeq(line, a, b)

Centered(line, width) ==
    Cells(" ", (width - Len(line)) \div 2) \o line
    \o Cells(" ", (width - Len(line)) - (width - Len(line)) \div 2)

\* the parts of the result of append_below, but for the lines between
Stacked(a, b, n, r, width) ==
    /\ r.height = a.height + n + b.height
    /\ r.width = width
    /\ \A i \in 1..a.height : r.lines[i] = Centered(a.lines[i], width)
    /\ \A i \in 1..b.height : r.lines[a.height + n + i] = Centered(b.lines[i], width)
    /\ r.entry = IF grid.move_entry THEN a.height + n + b.entry ELSE a.entry
    /\ r.exit = IF grid.move_exit THEN a.height + n + b.exit ELSE a.exit

C23_WitnessWide ==
    /\ grid.op = "append_below"
    /\ Len(grid.lines_between) = 1
    /\ Len(grid.lines_between[1]) > Max2(grid.self.width, grid.item.width)
    /\ IsErr(grid.result)

\* the first row of the region of the item k (counted from 0) of a Choice
\* rendered as text: the rows of the items before it and a separator each
RegionTop(k) == SumSeq([j \in 1..k |-> grid.items[j].height + 1])

\* the result holds one region per item, in item order, a separator row
\* between each two
Regions ==
    LET r == grid.result
        n == Len(grid.items)
        pads(k) == gaps(MaxSeq([i \in 1..n |-> grid.items[i].width + 2]),
                        grid.items[k].width + 2,
                        tree.parameters["internal_alignment"])
    IN  /\ r.height = SumSeq([k \in 1..n |-> grid.items[k].height]) + (n - 1)
        /\ \A k \in 1..n : \A i \in 1..grid.items[k].height :
               Part(r.lines[RegionTop(k - 1) + i],
                    2 + pads(k)[1] + 1, 2 + pads(k)[1] + grid.items[k].width)
                   = grid.items[k].lines[i]
        /\ \A k \in 2..n :
               r.lines[RegionTop(k - 1)] =
                   <<"line_vertical">> \o Cells(" ", r.width - 2) \o <<"line_vertical">>

\* row is a row of the region of the item at index default, which Python
\* counts from the end when it is negative
InDefaultRegion(row) ==
    LET n == Len(grid.items)
        d == IF tree.default < 0 THEN n + tree.default ELSE tree.default
    IN  /\ RegionTop(d) <= row
        /\ row < RegionTop(d) + grid.items[d + 1].height

\* C26 as stated: the text diagram of a Choice with n items has n stacked
\* regions, one per item in item order: its height is the sum of the
\* heights of the items' regions plus n - 1 separator rows, and its entry
\* and exit rows lie inside the region of the item at index default.
C26_RegionsAndDefault ==
    Returned("text_diagram") =>
        /\ Regions
        /\ InDefaultRegion(grid.result.entry)
        /\ InDefaultRegion(grid.result.exit)

\* what holds of every Choice, whatever its default
C26_RegionsOnly == Returned("text_diagram") => Regions

\* what holds of every Choice whose default is the subscript of an item
C26_ForIndexDefault ==
    (Returned("text_diagram") /\ tree.default >= 0) =>
        /\ InDefaultRegion(grid.result.entry)
        /\ InDefaultRegion(grid.result.exit)

\* a Choice of [Skip, Terminal] with default -1 has been rendered: three
\* rows for the Terminal under a separator and the row of the Skip, entry
\* and exit on the row of the Skip
C26_Witness ==
    /\ Returned("text_diagram")
    /\ tree.default = -1
    /\ Len(tree.items) = 2
    /\ tree.items[1].kind = "Skip" /\ tree.items[2].kind = "Terminal"
    /\ grid.result.height = 5
    /\ grid.result.entry = 0 /\ grid.result.exit = 0

\* a Choice of three items with default 1 has been rendered: entry and
\* exit are rows of the second region
C26_WitnessInside ==
    /\ Returned("text_diagram")
    /\ tree.default = 1
    /\ Len(tree.items) = 3
    /\ tree.items[1].kind = "Terminal" /\ tree.items[2].kind = "Terminal"
    /\ grid.result.entry = 5 /\ grid.result.exit = 5

----------------------------------------------------------------------------
(* Properties of the front end *)

\* C24 as stated: parse_json accepts a document whose root element is a
\* valid kind other than Diagram, such as the Choice of the command help,
\* and returns a Diagram whose items are Start, the node built from that
\* root, and End.
C24_RootWrapped ==
    (/\ parsed.call = "parse_json"
     /\ "element" \in DOMAIN parsed.doc
     /\ parsed.doc.element \in RailroadKinds \ {"Diagram"}) =>
        /\ ~IsErr(parsed.result)
        /\ parsed.result.kind = "Diagram"
        /\ Len(parsed.result.items) = 3
        /\ parsed.result.items[1].kind = "Start"
        /\ parsed.result.items[2] = RailroadFromDict(parsed.doc, parsed.properties)
        /\ parsed.result.items[3].kind = "End"

\* what parse_json does with such a root: it raises RRException
C24_RootRaises ==
    (/\ parsed.call = "parse_json"
     /\ "element" \in DOMAIN parsed.doc
     /\ parsed.doc.element # "Diagram") =>
        parsed.result = Err("RRException")

\* what holds of a root that is a Diagram of one item: the result is a
\* Diagram of Start, the node built from the item, End
C24_DiagramRoot ==
    (/\ parsed.call = "parse_json"
     /\ "element" \in DOMAIN parsed.doc
     /\ parsed.doc.element = "Diagram") =>
        /\ ~IsErr(parsed.result)
        /\ parsed.result.kind = "Diagram"
        /\ Len(parsed.result.items) = 3
        /\ parsed.result.items[1].kind = "Start"
        /\ parsed.result.items[2] =
               RailroadFromDict(parsed.doc.items[1], parsed.properties)
        /\ parsed.result.items[3].kind = "End"

\* parse_json has been called on the Choice of the command help and has
\* raised RRException
C24_Witness ==
    /\ parsed.call = "parse_json"
    /\ parsed.doc = HelpChoice
    /\ parsed.result = Err("RRException")

\* parse met a malformed input: a line indented less than the first line, a
\* line that jumps more than one indent level, or a block or text line that
\* does not match its grammar
Malformed ==
    /\ parsed.call = "parse"
    /\ parsed.printed # <<>>
    /\ parsed.printed[1].about \in {"is indented less than the first line",
                                     "jumps more than 1 indent level",
                                     "doesn't match the grammar"}

\* C27 as stated: when the DSL parser meets a malformed input, parse
\* reports the line and returns an empty Diagram to the caller without
\* raising.
C27_ReportsAndReturnsEmpty ==
    Malformed =>
        /\ Len(parsed.printed) = 1
        /\ parsed.printed[1].line \in 0..Len(parsed.string)
        /\ ~IsErr(parsed.result)
        /\ parsed.result.kind = "Diagram"
        /\ parsed.result.items = <<>>

\* what parse does then: it reports the line and raises IndexError
C27_ReportsAndRaises ==
    Malformed =>
        /\ Len(parsed.printed) = 1
        /\ parsed.printed[1].line \in 0..Len(parsed.string)
        /\ parsed.result = Err("IndexError")

\* parse has been called on a Sequence line under one tab followed by a
\* Terminal line under none: it has reported line 1 and raised IndexError
C27_Witness ==
    /\ parsed.call = "parse"
    /\ parsed.string = <<[tabs |-> 1, body |-> "Sequence:"],
                         [tabs |-> 0, body |-> "Terminal: foo"]>>
    /\ parsed.printed = <<[about |-> "is indented less than the first line",
                           line |-> 1]>>
    /\ parsed.result = Err("IndexError")

\* parse has reported a line that jumps more than one indent level
C27_WitnessJump ==
    /\ Malformed
    /\ parsed.printed[1].about = "jumps more than 1 indent level"
    /\ parsed.printed[1].line = 3

\* parse has reported a line that does not match its grammar
C27_WitnessGrammar ==
    /\ Malformed
    /\ parsed.printed[1].about = "doesn't match the grammar"
    /\ parsed.string[parsed.printed[1].line].body = "Terminal foo"

\* parse has returned the Diagram of a well-formed text
C27_WitnessDiagram ==
    /\ parsed.call = "parse"
    /\ parsed.printed = <<>>
    /\ ~parsed.simple
    /\ parsed.result =
           [kind |-> "Diagram", type |-> "complex",
            items |-> <<[kind |-> "Start", type |-> "complex"],
                        [kind |-> "Sequence",
                         items |-> <<RailroadTerminal("foo"), RailroadTerminal("foo")>>],
                        [kind |-> "End", type |-> "complex"]>>]

====
